---------------------------- MODULE Spec2Model ----------------------------
(***************************************************************************)
(* A model of pitivi's timeline canvas (pitivi/timeline/timeline.py) and   *)
(* of its render dialog (pitivi/render.py): the encoder helpers and the    *)
(* starting, progress and cancelling of a render.                          *)
(*                                                                         *)
(* The GES timeline, the GStreamer registry and the GObject signal system  *)
(* are the environment.  What the model takes from them:                   *)
(*   - a signal emission runs every connected handler to completion, one   *)
(*     after the other, before the emitting call returns;                  *)
(*   - disconnect_by_func removes one connection of the callback and       *)
(*     raises TypeError when the callback is not connected (the case       *)
(*     timeline.py lines 1016-1019 guard against);                         *)
(*   - GES.Timeline.get_layers() returns the layers sorted by priority;    *)
(*   - setting a layer's priority re-prioritises the track elements of     *)
(*     the layer's clips, which emits notify::priority on each of them.    *)
(***************************************************************************)
EXTENDS Integers, Sequences, FiniteSets, Bags, TLC

(* ------------------------------ bounds --------------------------------- *)

MaxLayers == 3     \* layers a timeline may hold
MaxElems == 2      \* track elements that exist
MaxBinds == 3      \* setTimeline calls in one run
MaxRegistry == 3   \* element factories the registry may hold
MaxLen == 2        \* length of the encoder list handed to encoders_muxer_compatible
zoom_steps == 2    \* Zoomable.zoom_steps: the highest zoom level
MaxTime == 2       \* starts are 0..MaxTime-1, durations 1..MaxTime (seconds)
MaxPos == 1        \* playback and snapping positions are 0..MaxPos
timeline_ui_width == 4  \* self.embed.get_allocation().width, in pixels
ruler_width == 4   \* self.ruler.get_allocation().width, in pixels
MaxCalls == 2      \* list calls recorded between two registry notifications
StartClock == 6    \* time.time() when the render dialog is built (seconds)
MaxClock == 13     \* the clock stops ticking here
MaxQueue == 2      \* messages the pipeline's bus may hold
MaxPresets == 3    \* render presets the manager may hold

(* --------------------------- program constants -------------------------- *)

EXPANDED_SIZE == 65   \* pitivi.utils.ui, imported at timeline.py line 9
SPACING == 10         \* pitivi.utils.ui, imported at timeline.py line 9
TEMP_PRIORITY == 999  \* the priority moveLayer parks the moved layer at
STAGE_PADDING == 250  \* added to the stage's width by _updateSize
end_padding == 500    \* updateHScrollAdjustments: room after the last clip
controls_width == 0   \* updateHScrollAdjustments
scrollbar_width == 0  \* updateHScrollAdjustments
edgeSnapDeadband == 5 \* the setting's default, in pixels
GstSECOND == 1        \* Gst.SECOND: times are counted in seconds
ETA_DELAY == 5        \* _updatePositionCb: seconds before an ETA is shown

(* ------------------------------ universes ------------------------------- *)

Timelines == {1, 2}
NoTimeline == 0
TrackTypes == {"VIDEO", "AUDIO"}
LayerIds == 1..MaxLayers
ElemIds == 1..MaxElems
NoTrack == <<0, "">>       \* the element is in no track yet
Gone == <<0, "gone">>      \* the element was removed from its track

\* bElement.get_track_type(): an element is a video or an audio element for
\* good, and GES places it in a track of its type.
ElemType(b) == IF b % 2 = 1 THEN "VIDEO" ELSE "AUDIO"

VARIABLES
  \* --- the GES model (environment) ---
  tlTracks,       \* [Timelines -> SUBSET TrackTypes]: the tracks of each timeline
  tlLayers,       \* [Timelines -> SUBSET LayerIds]: the layers of each timeline
  prio,           \* [LayerIds -> Nat]: layer.props.priority
  elemTrack,      \* [ElemIds -> track]: the track <<timeline, type>> holding the element
  elemLayer,      \* [ElemIds -> LayerIds]: bElement.get_parent().get_layer()
  updateEnabled,  \* the flag bTimeline.enable_update() sets
  \* --- TimelineStage / ControlContainer / Timeline ---
  bTimeline,      \* TimelineStage.bTimeline (NoTimeline is None)
  elements,       \* TimelineStage.elements: the proxies, each [b, y]
  controlActors,  \* ControlContainer.controlActors, each [layer, isAudio, y]
  conns,          \* the bag of signal connections <<kind, id, type, callback>>
  raised,         \* the exception the last dispatched handler ended with
  binds,          \* setTimeline calls so far
  \* --- the GES model: times, and the timeline's snapping distance ---
  elemStart,      \* [ElemIds -> Nat]: bElement.get_start()
  elemDuration,   \* [ElemIds -> Nat]: bElement.get_duration()
  snappingDistance, \* [Timelines -> Nat]: bTimeline.props.snapping_distance
  \* --- Zoomable, and what the stage and the widget derive from it ---
  zoomLevel,      \* Zoomable's current zoom level, shared by all instances
  lastPosition,   \* TimelineStage.lastPosition
  playheadX,      \* TimelineStage.playhead.props.x
  stageWidth,     \* TimelineStage.props.width
  snap,           \* TimelineStage._snap_indicator: [visible, x, height]
  xWrites,        \* for each proxy, the writes of its x by the last event
  hadjUpper,      \* Timeline.hadj.props.upper
  hadjPageSize,   \* Timeline.hadj.props.page_size
  zoomed_fitted,  \* Timeline.zoomed_fitted ("unset" until first assigned)
  boxZoomedFitted, \* ZoomBox.zoomed_fitted ("unset" until first assigned)
  op,             \* the operation handled last: "zoomFit", else "other"
  lastSnap,       \* the position of the last snapping-started, -1 after a
                  \* snapping-ended and before any
  \* --- ControlContainer.moveLayer in progress ---
  pc, movedLayer, priority, target, iter,
  prioAtCall,     \* the layers' priorities when moveLayer was called
  \* --- render.py: the registry and CachedEncoderList ---
  registry,       \* the registry's element factories, in iteration order
  cacheCreated,   \* _cached_encoder_list is not None
  factories,      \* CachedEncoderList._factories: <<>> is None, <<list>> a list
  muxers, audioEncoders, videoEncoders,
  ret,            \* the value the last available_* call returned (<<>>: none)
  reads,          \* calls of registry.get_feature_list so far
  combo,          \* what the last available_combinations() returned (<<>>: none)
  \* --- render.py: one call of encoders_muxer_compatible ---
  cmpEncoders, cmpMuxer, cmpRes, cmpDone,
  \* --- render.py: RenderDialog, its progress dialog and the pipeline ---
  progress,       \* RenderDialog.progress: "None" or "dialog"
  progressWindow, \* progress.window: "none", "shown" or "destroyed"
  progressbar,    \* progress.progressbar: [fraction, text]
  cancelVisible,  \* progress.cancel_button and play_pause_button are visible
  closeVisible,   \* progress.close_button is visible
  windowShown,    \* RenderDialog.window is shown
  pipeState,      \* the state asked of the pipeline: "NULL", "PAUSED", "PLAYING"
  pipeMode,       \* the pipeline's mode: "FULL_PREVIEW" or "SMART_RENDER"
  gstSigId,       \* the keys of RenderDialog._gstSigId
  handlers,       \* connections of the dialog's callbacks, per signal source
  busQueue,       \* the messages the bus holds, oldest first
  timestarted,    \* RenderDialog.timestarted
  inhibited,      \* the system holds the dialog's sleep inhibition
  now,            \* time.time()
  length,         \* app.current.timeline.props.duration
  notified,       \* the position of the last position notification
  enteredPlaying, \* when the current render last entered PLAYING, -1: never
  renderRaised,   \* the exception the last render handler ended with
  rdOp,           \* what the last step of the render dialog was
  \* --- render.py: the render presets and their error bar ---
  presets,        \* the names the preset manager holds, in order
  presetError,    \* the infobar of the manager is shown
  presetRaised,   \* the exception the last preset handler ended with
  presetOp,       \* the last preset step: [name, text, path, before]
  \* --- render.py: the codec settings and the encode bin's elements ---
  vcodecsettings, \* settings.vcodecsettings: property name -> value
  acodecsettings, \* settings.acodecsettings: property name -> value
  addedFactory,   \* the factory of the element the encode bin added last
  addedProps,     \* the properties set on that element: name -> value
  addedRaised,    \* the exception _elementAddedCb ended with
  \* --- render.py: the muxer and encoder combos, the file name ---
  settingsMuxer,    \* settings.muxer
  settingsVencoder, \* settings.vencoder
  settingsAencoder, \* settings.aencoder
  fileentry,        \* fileentry.get_text(), as its parts between dots
  userBase,         \* the base name the dialog was opened with
  preferred_vencoder, preferred_aencoder,
  muxer_combo_changing,
  vmodel, vactive,  \* video_encoder_combo: its rows and its selected row
  amodel, aactive,  \* audio_encoder_combo: its rows and its selected row
  comboRaised,      \* the exception the last combo handler ended with
  comboOp,          \* the last combo step: [name, vbefore, abefore]
  \* --- timeline.py: the clips of the timeline and Timeline.split ---
  clips,          \* the clips, each [start, duration, tracks]
  selected,       \* the clips of the selection
  splitCalls,     \* the clips clip.split() was called on by the last split()
  splitOp         \* the last split(): [name, position, before]

gesVars == <<tlTracks, tlLayers, prio, elemTrack, elemLayer, updateEnabled>>
stageVars == <<bTimeline, elements, controlActors, conns, raised, binds>>
moveVars == <<pc, movedLayer, priority, target, iter, prioAtCall>>
cacheVars == <<registry, cacheCreated, factories, muxers, audioEncoders,
               videoEncoders, ret, reads, combo>>
cmpVars == <<cmpEncoders, cmpMuxer, cmpRes, cmpDone>>
viewVars == <<elemStart, elemDuration, snappingDistance, zoomLevel,
              lastPosition, playheadX, stageWidth, snap, xWrites, hadjUpper,
              hadjPageSize, zoomed_fitted, boxZoomedFitted, op, lastSnap>>
timelineVars == <<gesVars, stageVars, moveVars, viewVars>>
renderVars == <<progress, progressWindow, progressbar, cancelVisible,
                closeVisible, windowShown, pipeState, pipeMode, gstSigId,
                handlers, busQueue, timestarted, inhibited, now, length,
                notified, enteredPlaying, renderRaised, rdOp>>
presetVars == <<presets, presetError, presetRaised, presetOp>>
encodeVars == <<vcodecsettings, acodecsettings, addedFactory, addedProps,
                addedRaised>>
comboVars == <<settingsMuxer, settingsVencoder, settingsAencoder, fileentry,
               userBase, preferred_vencoder, preferred_aencoder,
               muxer_combo_changing, vmodel, vactive, amodel, aactive,
               comboRaised, comboOp>>
dialogVars == <<presetVars, encodeVars, comboVars>>
splitVars == <<clips, selected, splitCalls, splitOp>>
vars == <<timelineVars, cacheVars, cmpVars, renderVars, dialogVars, splitVars>>


(* ----------------------- the state as one record ------------------------ *)
(* Handlers are written as functions from a state record to a state        *)
(* record, so that an emission can run several of them in a row.           *)

World ==
  [tlTracks |-> tlTracks, tlLayers |-> tlLayers, prio |-> prio,
   elemTrack |-> elemTrack, elemLayer |-> elemLayer,
   updateEnabled |-> updateEnabled, bTimeline |-> bTimeline,
   elements |-> elements, controlActors |-> controlActors,
   conns |-> conns, raised |-> "none",
   elemStart |-> elemStart, elemDuration |-> elemDuration,
   snappingDistance |-> snappingDistance, zoomLevel |-> zoomLevel,
   lastPosition |-> lastPosition, playheadX |-> playheadX,
   stageWidth |-> stageWidth, snap |-> snap,
   xWrites |-> [i \in 1..Len(elements) |-> 0],
   hadjUpper |-> hadjUpper, hadjPageSize |-> hadjPageSize,
   zoomed_fitted |-> zoomed_fitted, boxZoomedFitted |-> boxZoomedFitted]

Install(w) ==
  /\ tlTracks' = w.tlTracks
  /\ tlLayers' = w.tlLayers
  /\ prio' = w.prio
  /\ elemTrack' = w.elemTrack
  /\ elemLayer' = w.elemLayer
  /\ updateEnabled' = w.updateEnabled
  /\ bTimeline' = w.bTimeline
  /\ elements' = w.elements
  /\ controlActors' = w.controlActors
  /\ conns' = w.conns
  /\ raised' = w.raised
  /\ elemStart' = w.elemStart
  /\ elemDuration' = w.elemDuration
  /\ snappingDistance' = w.snappingDistance
  /\ zoomLevel' = w.zoomLevel
  /\ lastPosition' = w.lastPosition
  /\ playheadX' = w.playheadX
  /\ stageWidth' = w.stageWidth
  /\ snap' = w.snap
  /\ xWrites' = w.xWrites
  /\ hadjUpper' = w.hadjUpper
  /\ hadjPageSize' = w.hadjPageSize
  /\ zoomed_fitted' = w.zoomed_fitted
  /\ boxZoomedFitted' = w.boxZoomedFitted

(* --------------------------- GObject signals ---------------------------- *)

TimelineCallbacks ==
  <<"_trackAddedCb", "_trackRemovedCb", "_layerAddedCb", "_layerRemovedCb",
    "_snapCb", "_snapEndedCb">>
TrackCallbacks == <<"_trackElementAddedCb", "_trackElementRemovedCb">>
ElementCallbacks ==
  <<"_elementStartChangedCb", "_elementDurationChangedCb",
    "_elementInPointChangedCb", "_elementPriorityChangedCb">>

OnTimeline(t, cb) == <<"timeline", t, "", cb>>
OnTrack(track, cb) == <<"track", track[1], track[2], cb>>
OnElement(b, cb) == <<"element", b, "", cb>>
OnSelection(cb) == <<"selection", 0, "", cb>>

Connected(w, key) == CopiesIn(key, w.conns)

connect(w, key) == [w EXCEPT !.conns = @ (+) SetToBag({key})]

disconnect_by_func(w, key) ==
  IF Connected(w, key) = 0
    THEN [w EXCEPT !.raised = "TypeError"]
    ELSE [w EXCEPT !.conns = @ (-) SetToBag({key})]

\* Statements in sequence: the next one runs unless the previous one raised.
Then(w, Stmt(_)) == IF w.raised # "none" THEN w ELSE Stmt(w)

\* An emission to n connected copies of a handler: each runs to completion,
\* an exception ends only the handler that raised it.
RECURSIVE Emit(_, _, _)
Emit(Handler(_), w, n) ==
  IF n = 0 THEN w
  ELSE LET r == Handler([w EXCEPT !.raised = "none"])
       IN Emit(Handler,
               [r EXCEPT !.raised = IF r.raised # "none" THEN r.raised ELSE w.raised],
               n - 1)

(* ------------------------------ the layers ------------------------------ *)

RECURSIVE SortedByPriority(_, _)
SortedByPriority(S, pr) ==
  IF S = {} THEN <<>>
  ELSE LET m == CHOOSE x \in S :
                  \A y \in S : pr[x] < pr[y] \/ (pr[x] = pr[y] /\ x <= y)
       IN <<m>> \o SortedByPriority(S \ {m}, pr)

\* self.bTimeline.get_layers()
get_layers(w) ==
  IF w.bTimeline = NoTimeline THEN <<>>
  ELSE SortedByPriority(w.tlLayers[w.bTimeline], w.prio)

(* ------------------------------- Zoomable ------------------------------- *)
(* pitivi.utils.timeline is not among the sources: the conversions are     *)
(* those the specification gives, to_pixel(ns) = ns * zoom_ratio(level)    *)
(* and to_ns(px) = px / zoom_ratio(level), with zoom_ratio non-decreasing  *)
(* over the levels 0..zoom_steps.                                          *)

\* Pixels per second at a zoom level.
ZoomRatio(level) == level + 1

nsToPixel(w, ns) == ns * ZoomRatio(w.zoomLevel)

pixelToNs(w, px) == px \div ZoomRatio(w.zoomLevel)

\* Zoomable.computeZoomLevel: the highest level whose ratio is at most the
\* ratio asked for, taken in pixels for secs seconds; the lowest level
\* when there is none.
computeZoomLevel(pixels, secs) ==
  LET fit == {l \in 0..zoom_steps : ZoomRatio(l) * secs <= pixels}
  IN IF fit = {} THEN 0 ELSE CHOOSE l \in fit : \A k \in fit : k <= l

\* A request outside 0..zoom_steps is brought to the nearest bound.
ClampLevel(level) ==
  IF level < 0 THEN 0 ELSE IF level > zoom_steps THEN zoom_steps ELSE level

(* ------------------------------ durations ------------------------------- *)

\* The track elements timeline t holds.
ElementsOf(w, t) ==
  {b \in ElemIds : w.elemTrack[b] \notin {NoTrack, Gone} /\ w.elemTrack[b][1] = t}

RECURSIVE MaxEnd(_, _)
MaxEnd(w, S) ==
  IF S = {} THEN 0
  ELSE LET b == CHOOSE x \in S : TRUE
           rest == MaxEnd(w, S \ {b})
           end == w.elemStart[b] + w.elemDuration[b]
       IN IF end > rest THEN end ELSE rest

\* self.bTimeline.get_duration(): the end of the last element.
get_duration(w) == MaxEnd(w, ElementsOf(w, w.bTimeline))

(* ------------------- Timeline: the scroll adjustments ------------------- *)

\* Timeline.updateHScrollAdjustments
updateHScrollAdjustments(w) ==
  LET contents_size == nsToPixel(w, get_duration(w))
      widgets_width == controls_width + scrollbar_width
      w1 == [w EXCEPT !.hadjUpper = contents_size + widgets_width + end_padding,
                      !.hadjPageSize = timeline_ui_width]
  IN IF contents_size + widgets_width <= timeline_ui_width
       THEN [w1 EXCEPT !.zoomed_fitted = "True"]
       ELSE w1

\* A zoomChanged of the widget that leaves the snapping distance alone.
timelineZoomChangedKeepsDistance(w) == updateHScrollAdjustments(w)

\* Timeline.zoomChanged; the settings exist once the widget is built.
timelineZoomChanged(w) ==
  updateHScrollAdjustments(
    IF w.bTimeline # NoTimeline
      THEN [w EXCEPT !.snappingDistance[w.bTimeline] =
                        pixelToNs(w, edgeSnapDeadband)]
      ELSE w)

(* ---------------------------- TimelineStage ----------------------------- *)

\* TimelineStage._updateSize
updateSize(w) ==
  updateHScrollAdjustments(
    [w EXCEPT !.stageWidth = nsToPixel(w, get_duration(w)) + STAGE_PADDING])

\* A _setElementX that moves the proxy by the new offset instead of to it.
setElementXAccumulates(w, i) ==
  [w EXCEPT !.elements[i].x = @ + nsToPixel(w, w.elemStart[w.elements[i].b]),
            !.xWrites[i] = @ + 1]

\* TimelineStage._setElementX for the proxy at index i.
setElementX(w, i) ==
  [w EXCEPT !.elements[i].x = nsToPixel(w, w.elemStart[w.elements[i].b]),
            !.xWrites[i] = @ + 1]

RECURSIVE redrawLoop(_, _)
redrawLoop(w, i) ==
  IF i > Len(w.elements) THEN w
  ELSE redrawLoop(setElementX(w, i), i + 1)

\* TimelineStage._redraw
redraw(w) ==
  LET w1 == redrawLoop(updateSize(w), 1)
  IN [w1 EXCEPT !.playheadX = nsToPixel(w1, w1.lastPosition)]

\* TimelineStage.zoomChanged
stageZoomChanged(w) == redraw(w)

\* TimelineStage._positionCb; _scrollToPlayhead moves the scroll value only.
positionCb(w, position) ==
  [w EXCEPT !.playheadX = nsToPixel(w, position), !.lastPosition = position]

\* TimelineStage._snapEndedCb
snapEndedCb(w) == [w EXCEPT !.snap.visible = FALSE]

\* A _snapCb that shows the indicator whatever the position.
snapCbAlwaysShows(w, position) ==
  [w EXCEPT !.snap = [visible |-> TRUE, x |-> nsToPixel(w, position),
                      height |-> Len(get_layers(w)) * (EXPANDED_SIZE + SPACING) * 2]]

\* TimelineStage._snapCb
snapCb(w, position) ==
  IF position = 0 THEN snapEndedCb(w)
  ELSE [w EXCEPT !.snap =
          [visible |-> TRUE, x |-> nsToPixel(w, position),
           height |-> Len(get_layers(w)) * (EXPANDED_SIZE + SPACING) * 2]]

\* _elementStartChangedCb with the proxy at index i as its user data.
elementStartChangedCb(w, i) == setElementX(updateSize(w), i)

\* _elementDurationChangedCb; element.update redraws the proxy's own width.
elementDurationChangedCb(w, i) == updateSize(w)

\* The y _setElementY gives the proxy of bElement b.
setElementY(w, b) ==
  (IF ElemType(b) = "AUDIO"
     THEN Len(get_layers(w)) * (EXPANDED_SIZE + SPACING) ELSE 0)
  + w.prio[w.elemLayer[b]] * (EXPANDED_SIZE + SPACING) + SPACING

\* A priority handler that, like _layerPriorityChangedCb, leaves y alone.
elementPriorityChangedCbKeepsY(w, i) == w

\* _elementPriorityChangedCb with the proxy at index i as its user data.
elementPriorityChangedCb(w, i) ==
  [w EXCEPT !.elements[i].y = setElementY(w, w.elements[i].b)]

RECURSIVE setAllElementsY(_, _)
setAllElementsY(w, i) ==
  IF i > Len(w.elements) THEN w
  ELSE setAllElementsY(
         [w EXCEPT !.elements[i].y = setElementY(w, w.elements[i].b)], i + 1)

addTimelineElement(w, b) ==
  LET w1 == connect(w, OnElement(b, ElementCallbacks[1]))
      w2 == connect(w1, OnElement(b, ElementCallbacks[2]))
      w3 == connect(w2, OnElement(b, ElementCallbacks[3]))
      w4 == connect(w3, OnElement(b, ElementCallbacks[4]))
      w5 == [w4 EXCEPT !.elements =
                         Append(@, [b |-> b, y |-> setElementY(w4, b), x |-> 0]),
                       !.xWrites = Append(@, 0)]
  IN setElementX(w5, Len(w5.elements))

RemoveAt(s, i) == SubSeq(s, 1, i - 1) \o SubSeq(s, i + 1, Len(s))

\* The value of the loop variable after "for element in self.elements: if
\* element.bElement == bElement: break": the first match, else the last
\* proxy of the list, else (empty list) unbound, given as 0.
LoopVariable(elems, b) ==
  IF \E i \in 1..Len(elems) : elems[i].b = b
    THEN CHOOSE i \in 1..Len(elems) :
           elems[i].b = b /\ \A j \in 1..(i - 1) : elems[j].b # b
    ELSE Len(elems)

removeTimelineElement(w, b) ==
  LET w1 == disconnect_by_func(w, OnElement(b, "_elementStartChangedCb"))
      w2 == Then(w1, LAMBDA x :
              disconnect_by_func(x, OnElement(b, "_elementDurationChangedCb")))
      w3 == Then(w2, LAMBDA x :
              disconnect_by_func(x, OnElement(b, "_elementInPointChangedCb")))
  IN Then(w3, LAMBDA x :
       IF LoopVariable(x.elements, b) = 0
         THEN [x EXCEPT !.raised = "UnboundLocalError"]
         ELSE [x EXCEPT !.elements = RemoveAt(@, LoopVariable(x.elements, b)),
                        !.xWrites = RemoveAt(@, LoopVariable(x.elements, b))])

trackElementAddedCb(w, b) == addTimelineElement(updateSize(w), b)

trackElementRemovedCb(w, b) == removeTimelineElement(w, b)

connectTrack(w, track) ==
  connect(connect(w, OnTrack(track, TrackCallbacks[1])),
          OnTrack(track, TrackCallbacks[2]))

trackAddedCb(w, track) == connectTrack(w, track)

\* TimelineStage._disconnectTrack
disconnectTrack(w, track) ==
  Then(disconnect_by_func(w, OnTrack(track, TrackCallbacks[1])),
       LAMBDA x : disconnect_by_func(x, OnTrack(track, TrackCallbacks[2])))

trackRemovedCb(w, track) == disconnectTrack(w, track)

(* --------------------------- ControlContainer --------------------------- *)

\* The y _setTrackControlPosition gives a control.
setTrackControlPosition(w, control) ==
  w.prio[control.layer] * (EXPANDED_SIZE + SPACING) + SPACING
  + (IF control.isAudio
       THEN Len(get_layers(w)) * (EXPANDED_SIZE + SPACING) ELSE 0)

reorderLayerActors(w) ==
  LET ca == w.controlActors
  IN [w EXCEPT !.controlActors =
        [i \in 1..Len(ca) |->
           [ca[i] EXCEPT !.y = setTrackControlPosition(w, ca[i])]]]

addTrackControl(w, layer, isAudio) ==
  [w EXCEPT !.controlActors =
     Append(@, [layer |-> layer, isAudio |-> isAudio, y |-> 0])]

addLayerControl(w, layer) ==
  reorderLayerActors(addTrackControl(addTrackControl(w, layer, FALSE), layer, TRUE))

\* TimelineStage._add_layer
add_layer(w, layer) == addLayerControl(setAllElementsY(w, 1), layer)

layerAddedCb(w, layer) == add_layer(w, layer)

OnLayer(layer, cb) == <<"layer", layer, "", cb>>

\* TimelineStage._layerRemovedCb; _updatePlayHead touches nothing that is
\* modelled.
layerRemovedCb(w, layer) ==
  Then(disconnect_by_func(w, OnLayer(layer, "_clipAddedCb")),
       LAMBDA x : disconnect_by_func(x, OnLayer(layer, "_clipRemovedCb")))

(* ------------------- Timeline.setTimeline and the stage ----------------- *)

RECURSIVE disconnectTimeline(_, _, _)
disconnectTimeline(w, t, i) ==
  IF i > Len(TimelineCallbacks) THEN w
  ELSE Then(disconnect_by_func(w, OnTimeline(t, TimelineCallbacks[i])),
            LAMBDA x : disconnectTimeline(x, t, i + 1))

RECURSIVE connectTimeline(_, _, _)
connectTimeline(w, t, i) ==
  IF i > Len(TimelineCallbacks) THEN w
  ELSE connectTimeline(connect(w, OnTimeline(t, TimelineCallbacks[i])), t, i + 1)

RECURSIVE connectTracks(_, _, _)
connectTracks(w, t, types) ==
  IF types = {} THEN w
  ELSE LET ty == CHOOSE x \in types : TRUE
       IN connectTracks(connectTrack(w, <<t, ty>>), t, types \ {ty})

RECURSIVE addLayers(_, _)
addLayers(w, layers) ==
  IF layers = <<>> THEN w
  ELSE addLayers(add_layer(w, Head(layers)), Tail(layers))

\* TimelineStage.setTimeline
stageSetTimeline(w, t) ==
  LET w1 == IF w.bTimeline # NoTimeline
              THEN disconnectTimeline(w, w.bTimeline, 1) ELSE w
  IN Then(w1, LAMBDA x :
       LET w2 == [x EXCEPT !.bTimeline = t]
           w3 == connectTracks(w2, t, w2.tlTracks[t])
           w4 == addLayers(w3, get_layers(w3))
       IN stageZoomChanged(connectTimeline(w4, t, 1)))

\* Timeline.setTimeline
setTimeline(w, t) ==
  stageSetTimeline(connect(w, OnSelection("_selectionChangedCb")), t)

(* ----------------------- ControlContainer.moveLayer --------------------- *)

\* layer.props.priority = p, and what GES emits for it: notify::priority on
\* the track elements of the layer, handled by _elementPriorityChangedCb
\* once for each proxy connected to it.
RECURSIVE notifyPriority(_, _, _)
notifyPriority(w, layer, i) ==
  IF i > Len(w.elements) THEN w
  ELSE LET b == w.elements[i].b
       IN notifyPriority(
            IF /\ w.elemTrack[b] \notin {NoTrack, Gone}
               /\ w.elemLayer[b] = layer
               /\ Connected(w, OnElement(b, "_elementPriorityChangedCb")) > 0
              THEN elementPriorityChangedCb(w, i) ELSE w,
            layer, i + 1)

setLayerPriority(w, layer, p) ==
  notifyPriority([w EXCEPT !.prio[layer] = p], layer, 1)

\* The shift with the layer at the target priority left out of the range.
ShiftedPriorityStrict(dir, p, from, to) ==
  IF dir = "up" /\ to < p /\ p < from THEN p + 1
  ELSE IF dir = "down" /\ from < p /\ p < to THEN p - 1
  ELSE p

\* The shift of the branch for a move towards a lower priority only.
ShiftedPriorityUpOnly(dir, p, from, to) ==
  IF dir = "up" /\ to <= p /\ p < from THEN p + 1 ELSE p

\* The priority one pass of moveLayer's loop leaves a layer of priority p
\* with, dir being the branch taken ("up": priority > target).
ShiftedPriority(dir, p, from, to) ==
  IF dir = "up" /\ to <= p /\ p < from THEN p + 1
  ELSE IF dir = "down" /\ from < p /\ p <= to THEN p - 1
  ELSE p

Idle == pc \in {"idle", "returned"}

ResetMove ==
  /\ pc' = "idle"
  /\ prioAtCall' = [l \in LayerIds |-> 0]
  /\ movedLayer' = 0
  /\ priority' = 0
  /\ target' = 0
  /\ iter' = <<>>

\* Lines 539-545/549: up to the first pass of the loop.
MoveLayerBegin(c, tg) ==
  /\ Idle
  /\ bTimeline # NoTimeline
  /\ c \in 1..Len(controlActors)
  /\ tg \in 0..(Len(get_layers(World)) - 1)
  /\ LET l == controlActors[c].layer
         w1 == [World EXCEPT !.updateEnabled = FALSE]
         w2 == setLayerPriority(w1, l, TEMP_PRIORITY)
     IN /\ movedLayer' = l
        /\ prioAtCall' = prio
        /\ priority' = prio[l]
        /\ target' = tg
        /\ pc' = IF prio[l] > tg THEN "up"
                 ELSE IF prio[l] < tg THEN "down" ELSE "assign"
        /\ iter' = IF prio[l] = tg THEN <<>> ELSE get_layers(w2)
        /\ Install(w2)
  /\ op' = "other"
  /\ UNCHANGED <<binds, lastSnap>>

\* One pass of the loop of lines 545-548 or 550-553.
MoveLayerShift ==
  /\ pc \in {"up", "down"}
  /\ LET layer == Head(iter)
         np == ShiftedPriority(pc, prio[layer], priority, target)
     IN Install(IF np # prio[layer]
                  THEN setLayerPriority(World, layer, np) ELSE World)
  /\ iter' = Tail(iter)
  /\ pc' = IF Tail(iter) = <<>> THEN "assign" ELSE pc
  /\ op' = "other"
  /\ UNCHANGED <<movedLayer, priority, target, prioAtCall, binds, lastSnap>>

\* Lines 554-557.
MoveLayerEnd ==
  /\ pc = "assign"
  /\ LET w1 == setLayerPriority(World, movedLayer, target)
         w2 == reorderLayerActors(w1)
     IN Install([w2 EXCEPT !.updateEnabled = TRUE])
  /\ pc' = "returned"
  /\ iter' = <<>>
  /\ op' = "other"
  /\ UNCHANGED <<movedLayer, priority, target, prioAtCall, binds, lastSnap>>

(* -------------------- what the GES timeline reports --------------------- *)

\* A layer is appended to timeline t; "layer-added" is emitted.
LayerAdded(t) ==
  /\ Idle
  /\ Cardinality(tlLayers[t]) < MaxLayers
  /\ \E l \in LayerIds :
       /\ \A u \in Timelines : l \notin tlLayers[u]
       /\ \A k \in LayerIds : k < l => \E u \in Timelines : k \in tlLayers[u]
       /\ LET w1 == [World EXCEPT !.tlLayers[t] = @ \cup {l},
                                  !.prio[l] = Cardinality(tlLayers[t])]
          IN Install(Emit(LAMBDA x : layerAddedCb(x, l), w1,
                          Connected(w1, OnTimeline(t, "_layerAddedCb"))))
  /\ ResetMove
  /\ op' = "other"
  /\ UNCHANGED <<binds, lastSnap>>

\* A track is added to timeline t; "track-added" is emitted.
\* The layer of highest priority, holding no element, is removed from
\* timeline t; layer-removed is emitted.
LayerRemoved(t) ==
  /\ Idle
  /\ \E l \in tlLayers[t] :
       /\ \A k \in tlLayers[t] : prio[k] <= prio[l]
       /\ \A b \in ElemIds :
            elemTrack[b] \notin {NoTrack, Gone} => elemLayer[b] # l
       /\ LET w1 == [World EXCEPT !.tlLayers[t] = @ \ {l}]
          IN Install(Emit(LAMBDA x : layerRemovedCb(x, l), w1,
                          Connected(w1, OnTimeline(t, "_layerRemovedCb"))))
  /\ ResetMove
  /\ op' = "other"
  /\ UNCHANGED <<binds, lastSnap>>

TrackAdded(t, ty) ==
  /\ Idle
  /\ ty \notin tlTracks[t]
  /\ LET w1 == [World EXCEPT !.tlTracks[t] = @ \cup {ty}]
     IN Install(Emit(LAMBDA x : trackAddedCb(x, <<t, ty>>), w1,
                     Connected(w1, OnTimeline(t, "_trackAddedCb"))))
  /\ ResetMove
  /\ op' = "other"
  /\ UNCHANGED <<binds, lastSnap>>

\* Track element b of a clip of layer l, starting at start and lasting
\* duration, is added to a track; "track-element-added" is emitted.
\* Elements are numbered in the order they are added, and a removed element
\* is not added again.
\* A track holding no element is removed from timeline t; track-removed
\* is emitted.
TrackRemoved(t, ty) ==
  /\ Idle
  /\ ty \in tlTracks[t]
  /\ \A b \in ElemIds : elemTrack[b] # <<t, ty>>
  /\ LET w1 == [World EXCEPT !.tlTracks[t] = @ \ {ty}]
     IN Install(Emit(LAMBDA x : trackRemovedCb(x, <<t, ty>>), w1,
                     Connected(w1, OnTimeline(t, "_trackRemovedCb"))))
  /\ ResetMove
  /\ op' = "other"
  /\ UNCHANGED <<binds, lastSnap>>

TrackElementAddedAt(b, track, l, start, duration) ==
  /\ Idle
  /\ elemTrack[b] = NoTrack
  /\ \A k \in ElemIds : k < b => elemTrack[k] # NoTrack
  /\ track[2] = ElemType(b)
  /\ track[2] \in tlTracks[track[1]]
  /\ l \in tlLayers[track[1]]
  /\ LET w1 == [World EXCEPT !.elemTrack[b] = track, !.elemLayer[b] = l,
                             !.elemStart[b] = start,
                             !.elemDuration[b] = duration]
     IN Install(Emit(LAMBDA x : trackElementAddedCb(x, b), w1,
                     Connected(w1, OnTrack(track, "_trackElementAddedCb"))))
  /\ ResetMove
  /\ op' = "other"
  /\ UNCHANGED <<binds, lastSnap>>

\* A one-second element is added at the start of the timeline.
TrackElementAdded(b, track, l) == TrackElementAddedAt(b, track, l, 0, 1)

\* Track element b is removed from its track; "track-element-removed" is
\* emitted.  The element is out of the model from then on, and its times
\* are read no more.
TrackElementRemoved(b) ==
  /\ Idle
  /\ elemTrack[b] \notin {NoTrack, Gone}
  /\ LET w1 == [World EXCEPT !.elemTrack[b] = Gone, !.elemStart[b] = 0,
                             !.elemDuration[b] = 0]
     IN Install(Emit(LAMBDA x : trackElementRemovedCb(x, b), w1,
                     Connected(w1, OnTrack(elemTrack[b], "_trackElementRemovedCb"))))
  /\ ResetMove
  /\ op' = "other"
  /\ UNCHANGED <<binds, lastSnap>>

\* The application binds the timeline widget to timeline t.
SetTimeline(t) ==
  /\ Idle
  /\ binds < MaxBinds
  /\ Install(setTimeline(World, t))
  /\ binds' = binds + 1
  /\ ResetMove
  /\ op' = "other"
  /\ UNCHANGED lastSnap

(* ------------------ zooming: Zoomable and its instances ----------------- *)

\* ZoomBox.zoomChanged: the slider is moved to the new level, and its
\* value-changed handler _zoomAdjustmentChangedCb runs: the level it asks
\* for is the current one, and the ZoomBox's own zoomed_fitted is cleared.
zoomBoxZoomChanged(w) == [w EXCEPT !.boxZoomedFitted = "False"]

\* Zoomable.setZoomLevel: the level is bounded, and when it differs from the
\* current one every instance's zoomChanged runs: the Timeline widget, the
\* ZoomBox (unless the slider itself asks: _updateZoomSlider), the stage.
setZoomLevel(w, level, fromSlider) ==
  IF ClampLevel(level) = w.zoomLevel THEN w
  ELSE LET w1 == timelineZoomChanged([w EXCEPT !.zoomLevel = ClampLevel(level)])
           w2 == IF fromSlider THEN w1 ELSE zoomBoxZoomChanged(w1)
       IN stageZoomChanged(w2)

\* ZoomBox._zoomAdjustmentChangedCb
zoomAdjustmentChangedCb(w, value) ==
  [setZoomLevel(w, value, TRUE) EXCEPT !.boxZoomedFitted = "False"]

\* Timeline._zoomInCb
zoomInCb(w) ==
  [setZoomLevel(w, w.zoomLevel + 1, FALSE) EXCEPT !.zoomed_fitted = "False"]

\* Timeline._zoomOutCb
zoomOutCb(w) ==
  [setZoomLevel(w, w.zoomLevel - 1, FALSE) EXCEPT !.zoomed_fitted = "False"]

\* Timeline._scrollEventCb with the control key held.
scrollEventCb(w, delta) ==
  IF delta < 0 THEN setZoomLevel(w, w.zoomLevel + 1, FALSE)
  ELSE IF delta > 0 THEN setZoomLevel(w, w.zoomLevel - 1, FALSE)
  ELSE w

\* Timeline._setBestZoomRatio
setBestZoomRatio(w) ==
  IF get_duration(w) = 0 THEN w
  ELSE LET timeline_duration_s ==
             (get_duration(w) + GstSECOND - 1) \div GstSECOND
       IN [setZoomLevel(w, computeZoomLevel(ruler_width, timeline_duration_s),
                        FALSE)
             EXCEPT !.zoomed_fitted = "True"]

\* notify::start or notify::duration of element b, handled once for each
\* proxy of b while the callback is connected to b.
RECURSIVE notifyElement(_, _, _, _, _)
notifyElement(Handler(_, _), callback, w, b, i) ==
  IF i > Len(w.elements) THEN w
  ELSE notifyElement(Handler, callback,
                     IF /\ w.elements[i].b = b
                        /\ Connected(w, OnElement(b, callback)) > 0
                       THEN Handler(w, i) ELSE w,
                     b, i + 1)

\* What every user event and notification below has in common.
Handled(w, name) ==
  /\ Idle
  /\ bTimeline # NoTimeline
  /\ Install(w)
  /\ ResetMove
  /\ op' = name
  /\ UNCHANGED binds

\* The start of element b is set to start; notify::start is emitted.
StartChanged(b, start) ==
  /\ elemTrack[b] \notin {NoTrack, Gone}
  /\ start # elemStart[b]
  /\ Handled(notifyElement(elementStartChangedCb, "_elementStartChangedCb",
                           [World EXCEPT !.elemStart[b] = start], b, 1),
             "other")
  /\ UNCHANGED lastSnap

\* The duration of element b is set; notify::duration is emitted.
DurationChanged(b, duration) ==
  /\ elemTrack[b] \notin {NoTrack, Gone}
  /\ duration # elemDuration[b]
  /\ Handled(notifyElement(elementDurationChangedCb, "_elementDurationChangedCb",
                           [World EXCEPT !.elemDuration[b] = duration], b, 1),
             "other")
  /\ UNCHANGED lastSnap

\* The pipeline reports a playback position.
Position(position) ==
  /\ Handled(positionCb(World, position), "other")
  /\ UNCHANGED lastSnap

\* The Zoom In and Zoom Out menu items.
ZoomIn == Handled(zoomInCb(World), "other") /\ UNCHANGED lastSnap

ZoomOut == Handled(zoomOutCb(World), "other") /\ UNCHANGED lastSnap

\* The zoom slider is moved to value.
ZoomSlider(value) ==
  /\ value # zoomLevel
  /\ Handled(zoomAdjustmentChangedCb(World, value), "other")
  /\ UNCHANGED lastSnap

\* The wheel is turned over the canvas with the control key held.
CtrlScroll(delta) ==
  Handled(scrollEventCb(World, delta), "other") /\ UNCHANGED lastSnap

\* The Zoom Fit menu item (Timeline._zoomFitCb) or the ZoomBox's button
\* (Timeline.zoomFit, which also scrolls to the start).
ZoomFit == Handled(setBestZoomRatio(World), "zoomFit") /\ UNCHANGED lastSnap

\* The timeline emits snapping-started.
SnapStarted(position) ==
  /\ Handled(Emit(LAMBDA x : snapCb(x, position), World,
                  Connected(World, OnTimeline(bTimeline, "_snapCb"))),
             "other")
  /\ lastSnap' = position

\* The timeline emits snapping-ended.
SnapEnded ==
  /\ Handled(Emit(snapEndedCb, World,
                  Connected(World, OnTimeline(bTimeline, "_snapEndedCb"))),
             "other")
  /\ lastSnap' = -1

(* ===================== render.py: element factories ===================== *)
(* A factory is known by its name.  Its klass is given as the list         *)
(* fact.get_klass().split('/') yields, its static pad templates as         *)
(* [direction, caps], and caps as the set of media types they hold:        *)
(* a.intersect(b).is_empty() is a \cap b = {}.                             *)

Tpl(direction, caps) == [direction |-> direction, caps |-> caps]

Klass(f) ==
  CASE f = "matroskamux" -> <<"Codec", "Muxer">>
    [] f = "oggmux"      -> <<"Codec", "Muxer">>
    [] f = "wavmux"      -> <<"Codec", "Muxer", "Audio">>
    [] f = "srconlymux"  -> <<"Codec", "Muxer">>
    [] f = "vorbisenc"   -> <<"Codec", "Encoder", "Audio">>
    [] f = "twinenc"     -> <<"Codec", "Encoder", "Audio">>
    [] f = "emptyenc"    -> <<"Codec", "Encoder", "Audio">>
    [] f = "x264enc"     -> <<"Codec", "Encoder", "Video">>
    [] f = "pngenc"      -> <<"Codec", "Encoder", "Image">>
    [] f = "avenc"       -> <<"Codec", "Encoder", "Video", "Audio">>
    [] OTHER             -> <<"Source", "File">>

Templates(f) ==
  CASE f = "matroskamux" ->
         <<Tpl("SINK", {"video/x-h264", "video/x-theora"}),
           Tpl("SINK", {"audio/x-vorbis", "audio/x-raw"}),
           Tpl("SRC", {"video/x-matroska"})>>
    [] f = "oggmux" ->
         <<Tpl("SRC", {"application/ogg"}),
           Tpl("SINK", {"video/x-theora"}),
           Tpl("SINK", {"audio/x-vorbis"})>>
    [] f = "wavmux" ->
         <<Tpl("SINK", {"audio/x-raw"}), Tpl("SRC", {"audio/x-wav"})>>
    [] f = "srconlymux" -> <<Tpl("SRC", {"video/quicktime"})>>
    [] f = "vorbisenc" ->
         <<Tpl("SINK", {"audio/x-raw"}), Tpl("SRC", {"audio/x-vorbis"})>>
    [] f = "twinenc" ->
         <<Tpl("SRC", {"audio/x-vorbis"}), Tpl("SINK", {"audio/x-raw"}),
           Tpl("SRC", {"audio/x-raw"})>>
    [] f = "emptyenc" -> <<Tpl("SINK", {"audio/x-raw"}), Tpl("SRC", {})>>
    [] f = "x264enc" ->
         <<Tpl("SINK", {"video/x-raw"}), Tpl("SRC", {"video/x-h264"})>>
    [] f = "pngenc" ->
         <<Tpl("SINK", {"video/x-raw"}), Tpl("SRC", {"image/png"})>>
    [] f = "avenc" ->
         <<Tpl("SINK", {"video/x-raw"}), Tpl("SINK", {"audio/x-raw"}),
           Tpl("SRC", {"video/x-dv"})>>
    [] OTHER -> <<Tpl("SRC", {"ANY"})>>

RegistryPool ==
  {"matroskamux", "wavmux", "vorbisenc", "x264enc", "pngenc", "avenc",
   "filesrc"}
EncoderPool == {"vorbisenc", "twinenc", "emptyenc", "x264enc"}
MuxerPool == {"matroskamux", "oggmux", "wavmux", "srconlymux"}

Range(s) == {s[i] : i \in 1..Len(s)}

(* --------------------------- CachedEncoderList -------------------------- *)

list_compat(a1, b1) == \A i \in 1..Len(a1) : a1[i] \in Range(b1)

RECURSIVE buildLoop(_, _)
buildLoop(lists, facts) ==
  IF facts = <<>> THEN lists
  ELSE LET fact == Head(facts)
           klist == Klass(fact)
       IN buildLoop(
            IF list_compat(<<"Codec", "Muxer">>, klist)
              THEN [lists EXCEPT !.muxers = Append(@, fact)]
            ELSE IF \/ list_compat(<<"Codec", "Encoder", "Video">>, klist)
                    \/ list_compat(<<"Codec", "Encoder", "Image">>, klist)
              THEN [lists EXCEPT !.videoEncoders = Append(@, fact)]
            ELSE IF list_compat(<<"Codec", "Encoder", "Audio">>, klist)
              THEN [lists EXCEPT !.audioEncoders = Append(@, fact)]
            ELSE lists,
            Tail(facts))

\* The three lists _buildFactories leaves for the factory list facts.
buildFactories(facts) ==
  buildLoop([muxers |-> <<>>, videoEncoders |-> <<>>, audioEncoders |-> <<>>],
            facts)

\* A list call that rebuilds every time.
needsBuildAlways(fs) == TRUE

\* A handler that leaves the cached factory list in place.
registryFeatureAddedCbKeeps(fs) == fs

\* "if self._factories is None": whether a list call rebuilds.
needsBuild(fs) == fs = <<>>

\* What _registryFeatureAddedCb leaves in _factories.
registryFeatureAddedCb(fs) == <<>>

\* The registry gains factory f and emits "feature-added".
FeatureAdded(f) ==
  /\ Len(registry) < MaxRegistry
  /\ f \notin Range(registry)
  /\ registry' = Append(registry, f)
  /\ factories' = IF cacheCreated THEN registryFeatureAddedCb(factories)
                  ELSE factories
  /\ ret' = <<>>
  /\ combo' = <<>>
  /\ UNCHANGED <<cacheCreated, muxers, audioEncoders, videoEncoders, reads>>

\* A call of available_muxers, available_audio_encoders or
\* available_video_encoders: encoderlist(), then the method of the list.
Available(kind) ==
  /\ Len(ret) < MaxCalls
  /\ cacheCreated' = TRUE
  /\ LET build == needsBuild(factories)
         lists == IF build THEN buildFactories(registry)
                  ELSE [muxers |-> muxers, videoEncoders |-> videoEncoders,
                        audioEncoders |-> audioEncoders]
     IN /\ factories' = IF build THEN <<registry>> ELSE factories
        /\ muxers' = lists.muxers
        /\ videoEncoders' = lists.videoEncoders
        /\ audioEncoders' = lists.audioEncoders
        /\ reads' = IF build THEN reads + 1 ELSE reads
        /\ ret' = Append(ret, [kind |-> kind, list |-> lists[kind]])
  /\ UNCHANGED <<registry, combo>>

available_muxers == Available("muxers")
available_audio_encoders == Available("audioEncoders")
available_video_encoders == Available("videoEncoders")

(* ----------------------- encoders_muxer_compatible ---------------------- *)

\* [x.get_caps() for x in muxer.get_static_pad_templates() if x.direction == SINK]
SinkCaps(muxer) ==
  LET tpls == SelectSeq(Templates(muxer), LAMBDA x : x.direction = "SINK")
  IN [i \in 1..Len(tpls) |-> tpls[i].caps]

my_can_sink_caps(muxer, ocaps, muxsinkcaps) ==
  IF muxsinkcaps # <<>>
    THEN \E i \in 1..Len(muxsinkcaps) : muxsinkcaps[i] \cap ocaps # {}
    ELSE \E i \in 1..Len(Templates(muxer)) :
           /\ Templates(muxer)[i].direction = "SINK"
           /\ Templates(muxer)[i].caps \cap ocaps # {}

\* The inner loop without its break: every fitting source template appends.
RECURSIVE templateLoopNoBreak(_, _, _, _, _)
templateLoopNoBreak(res, encoder, muxer, muxsinkcaps, i) ==
  IF i > Len(Templates(encoder)) THEN res
  ELSE LET tpl == Templates(encoder)[i]
       IN templateLoopNoBreak(
            IF /\ tpl.direction = "SRC"
               /\ \E k \in 1..Len(muxsinkcaps) : muxsinkcaps[k] \cap tpl.caps # {}
              THEN Append(res, encoder) ELSE res,
            encoder, muxer, muxsinkcaps, i + 1)

\* The inner loop over the encoder's templates, from template i on: the
\* encoder is appended at the first fitting source template, which ends
\* the loop.
RECURSIVE templateLoop(_, _, _, _, _)
templateLoop(res, encoder, muxer, muxsinkcaps, i) ==
  IF i > Len(Templates(encoder)) THEN res
  ELSE LET tpl == Templates(encoder)[i]
       IN IF /\ tpl.direction = "SRC"
             /\ my_can_sink_caps(muxer, tpl.caps, muxsinkcaps)
            THEN Append(res, encoder)
            ELSE templateLoop(res, encoder, muxer, muxsinkcaps, i + 1)

RECURSIVE encoderLoop(_, _, _, _)
encoderLoop(res, encoders, muxer, muxsinkcaps) ==
  IF encoders = <<>> THEN res
  ELSE encoderLoop(templateLoop(res, Head(encoders), muxer, muxsinkcaps, 1),
                   Tail(encoders), muxer, muxsinkcaps)

encoders_muxer_compatible(encoders, muxer, muxsinkcaps) ==
  encoderLoop(<<>>, encoders, muxer,
              IF muxsinkcaps = <<>> THEN SinkCaps(muxer) ELSE muxsinkcaps)

\* The call encoders_muxer_compatible(encoders, muxer).
CompatCall ==
  /\ ~cmpDone
  /\ cmpRes' = encoders_muxer_compatible(cmpEncoders, cmpMuxer, <<>>)
  /\ cmpDone' = TRUE
  /\ UNCHANGED <<cmpEncoders, cmpMuxer>>

(* ------------------------ available_combinations ------------------------ *)

\* The loop that keeps a muxer having audio or video encoders.
RECURSIVE combinationsLoopEither(_, _, _, _)
combinationsLoopEither(res, ms, aencoders, vencoders) ==
  IF ms = <<>> THEN res
  ELSE LET muxer == Head(ms)
           aencs == encoders_muxer_compatible(aencoders, muxer, <<>>)
           vencs == encoders_muxer_compatible(vencoders, muxer, <<>>)
       IN combinationsLoopEither(
            IF aencs # <<>> \/ vencs # <<>>
              THEN [containers |-> Append(res.containers, muxer),
                    audio |-> (muxer :> aencs) @@ res.audio,
                    video |-> (muxer :> vencs) @@ res.video]
              ELSE res,
            Tail(ms), aencoders, vencoders)

\* "for muxer in muxers" of available_combinations; a dictionary is a
\* function of the muxers' names.
RECURSIVE combinationsLoop(_, _, _, _)
combinationsLoop(res, ms, aencoders, vencoders) ==
  IF ms = <<>> THEN res
  ELSE LET muxer == Head(ms)
           aencs == encoders_muxer_compatible(aencoders, muxer, <<>>)
           vencs == encoders_muxer_compatible(vencoders, muxer, <<>>)
       IN combinationsLoop(
            IF aencs # <<>> /\ vencs # <<>>
              THEN [containers |-> Append(res.containers, muxer),
                    audio |-> (muxer :> aencs) @@ res.audio,
                    video |-> (muxer :> vencs) @@ res.video]
              ELSE res,
            Tail(ms), aencoders, vencoders)

\* A call of available_combinations(): the three list calls, the first of
\* which rebuilds the lists when they were invalidated, then the loop.
available_combinations ==
  /\ Len(ret) < MaxCalls
  /\ cacheCreated' = TRUE
  /\ LET build == needsBuild(factories)
         lists == IF build THEN buildFactories(registry)
                  ELSE [muxers |-> muxers, videoEncoders |-> videoEncoders,
                        audioEncoders |-> audioEncoders]
     IN /\ factories' = IF build THEN <<registry>> ELSE factories
        /\ muxers' = lists.muxers
        /\ videoEncoders' = lists.videoEncoders
        /\ audioEncoders' = lists.audioEncoders
        /\ reads' = IF build THEN reads + 1 ELSE reads
        /\ ret' = ret \o <<[kind |-> "audioEncoders", list |-> lists.audioEncoders],
                           [kind |-> "videoEncoders", list |-> lists.videoEncoders],
                           [kind |-> "muxers", list |-> lists.muxers]>>
        /\ combo' = <<combinationsLoop(
                        [containers |-> <<>>, audio |-> <<>>, video |-> <<>>],
                        lists.muxers, lists.audioEncoders, lists.videoEncoders)>>
  /\ UNCHANGED registry

(* ============================ specifications ============================ *)

\* The state after the constructors: no timeline bound, nothing connected.
BaseWorld ==
  [tlTracks |-> [t \in Timelines |-> {}],
   tlLayers |-> [t \in Timelines |-> {}],
   prio |-> [l \in LayerIds |-> 0],
   elemTrack |-> [b \in ElemIds |-> NoTrack],
   elemLayer |-> [b \in ElemIds |-> 1],
   updateEnabled |-> TRUE,
   bTimeline |-> NoTimeline,
   elements |-> <<>>,
   controlActors |-> <<>>,
   conns |-> EmptyBag,
   raised |-> "none",
   elemStart |-> [b \in ElemIds |-> 0],
   elemDuration |-> [b \in ElemIds |-> 0],
   snappingDistance |-> [t \in Timelines |-> 0],
   zoomLevel |-> 0,
   lastPosition |-> 0,
   playheadX |-> 0,
   stageWidth |-> 0,
   snap |-> [visible |-> FALSE, x |-> 0, height |-> 0],
   xWrites |-> <<>>,
   hadjUpper |-> 0,
   hadjPageSize |-> 0,
   zoomed_fitted |-> "unset",
   boxZoomedFitted |-> "unset"]

StartsAs(w) ==
  /\ tlTracks = w.tlTracks
  /\ tlLayers = w.tlLayers
  /\ prio = w.prio
  /\ elemTrack = w.elemTrack
  /\ elemLayer = w.elemLayer
  /\ updateEnabled = w.updateEnabled
  /\ bTimeline = w.bTimeline
  /\ elements = w.elements
  /\ controlActors = w.controlActors
  /\ conns = w.conns
  /\ raised = w.raised
  /\ elemStart = w.elemStart
  /\ elemDuration = w.elemDuration
  /\ snappingDistance = w.snappingDistance
  /\ zoomLevel = w.zoomLevel
  /\ lastPosition = w.lastPosition
  /\ playheadX = w.playheadX
  /\ stageWidth = w.stageWidth
  /\ snap = w.snap
  /\ xWrites = w.xWrites
  /\ hadjUpper = w.hadjUpper
  /\ hadjPageSize = w.hadjPageSize
  /\ zoomed_fitted = w.zoomed_fitted
  /\ boxZoomedFitted = w.boxZoomedFitted
  /\ op = "other"
  /\ lastSnap = -1

(* ------------------- the render dialog and its pipeline ----------------- *)
(* The pipeline is the environment.  What the model takes from it:         *)
(*   - set_state returns at once; the STATE_CHANGED message of the state   *)
(*     reached is put on the bus and handled later, from the main loop;    *)
(*   - set_state(NULL) flushes the bus;                                    *)
(*   - the pipeline emits "position" whenever it pleases, and the bus and  *)
(*     the position signal are not ordered with respect to each other;     *)
(*   - time.time() never goes back.                                        *)

SignalSources == {"encodebin", "bus", "position"}

RenderWorld ==
  [progress |-> progress, progressWindow |-> progressWindow,
   progressbar |-> progressbar, cancelVisible |-> cancelVisible,
   closeVisible |-> closeVisible, windowShown |-> windowShown,
   pipeState |-> pipeState, pipeMode |-> pipeMode, gstSigId |-> gstSigId,
   handlers |-> handlers, busQueue |-> busQueue,
   timestarted |-> timestarted, inhibited |-> inhibited,
   now |-> now, length |-> length,
   enteredPlaying |-> enteredPlaying, raised |-> "none"]

InstallRender(r) ==
  /\ progress' = r.progress
  /\ progressWindow' = r.progressWindow
  /\ progressbar' = r.progressbar
  /\ cancelVisible' = r.cancelVisible
  /\ closeVisible' = r.closeVisible
  /\ windowShown' = r.windowShown
  /\ pipeState' = r.pipeState
  /\ pipeMode' = r.pipeMode
  /\ gstSigId' = r.gstSigId
  /\ handlers' = r.handlers
  /\ busQueue' = r.busQueue
  /\ timestarted' = r.timestarted
  /\ inhibited' = r.inhibited
  /\ now' = r.now
  /\ length' = r.length
  /\ enteredPlaying' = r.enteredPlaying
  /\ renderRaised' = r.raised

\* pipeline.set_state(state): going to NULL flushes the bus, reaching
\* PAUSED or PLAYING is announced on it.
set_state(r, state) ==
  [r EXCEPT !.pipeState = state,
            !.busQueue = IF state = "NULL" THEN <<>>
                         ELSE Append(r.busQueue, state)]

\* obj.connect(signal, callback)
connectHandler(r, source) ==
  [r EXCEPT !.handlers[source] = r.handlers[source] + 1]

\* RenderDialog.startAction
startAction(r) ==
  LET r1 == [set_state(r, "NULL") EXCEPT !.pipeMode = "SMART_RENDER"]
      r2 == [connectHandler(r1, "encodebin")
               EXCEPT !.gstSigId = r1.gstSigId \cup {"encodebin"}]
  IN set_state(r2, "PLAYING")

\* A position handler is left connected.
disconnectFromGstLeavesPosition(r) ==
  [r EXCEPT !.handlers = [s \in SignalSources |->
                            IF s \in r.gstSigId THEN r.handlers[s] - 1
                            ELSE r.handlers[s]],
            !.gstSigId = {}]

\* RenderDialog._disconnectFromGst
disconnectFromGst(r) ==
  LET r1 == [r EXCEPT !.handlers = [s \in SignalSources |->
                                      IF s \in r.gstSigId
                                        THEN r.handlers[s] - 1
                                        ELSE r.handlers[s]],
                      !.gstSigId = {}]
  IN IF r1.handlers["position"] = 0
       THEN [r1 EXCEPT !.raised = "TypeError"]
       ELSE [r1 EXCEPT !.handlers["position"] = @ - 1]

\* RenderDialog._shutDown
shutDown(r) ==
  LET r1 == disconnectFromGst(set_state(r, "NULL"))
  IN IF r1.raised # "none" THEN r1
     ELSE [r1 EXCEPT !.pipeMode = "FULL_PREVIEW"]

\* RenderDialog._destroyProgressWindow
destroyProgressWindow(r) ==
  IF r.progress = "None" THEN [r EXCEPT !.raised = "AttributeError"]
  ELSE [r EXCEPT !.progressWindow = "destroyed",
                 !.progress = "None",
                 !.windowShown = TRUE]

\* RenderDialog._cancelRender
cancelRender(r) ==
  LET r1 == shutDown(r)
  IN IF r1.raised # "none" THEN r1 ELSE destroyProgressWindow(r1)

\* RenderDialog._pauseRender: the pipeline's togglePlayback
pauseRender(r) ==
  IF r.pipeState = "PLAYING" THEN set_state(r, "PAUSED")
  ELSE set_state(r, "PLAYING")

\* RenderDialog._renderButtonClickedCb: a new progress dialog shows its
\* cancel and pause buttons and hides its close button.
renderButtonClickedCb(r) ==
  LET r1 == [r EXCEPT !.progress = "dialog",
                      !.progressWindow = "none",
                      !.progressbar = [fraction |-> <<>>, text |-> <<>>],
                      !.cancelVisible = TRUE,
                      !.closeVisible = FALSE,
                      !.windowShown = FALSE]
      r2 == [startAction(r1) EXCEPT !.progressWindow = "shown"]
      r3 == [connectHandler(r2, "bus")
               EXCEPT !.gstSigId = r2.gstSigId \cup {"bus"}]
  IN connectHandler(r3, "position")

\* RenderingProgressDialog._closeButtonClickedCb
progressCloseButtonClickedCb(r) ==
  [r EXCEPT !.progressWindow = "destroyed", !.windowShown = TRUE]

\* RenderDialog._busMessageCb; a message is "EOS", or the state of a
\* STATE_CHANGED message of the pipeline with no state pending.
busMessageCb(r, message) ==
  IF message = "EOS"
    THEN LET r1 == shutDown(r)
         IN IF r1.raised # "none" THEN r1
            ELSE IF r1.progress = "None"
              THEN [r1 EXCEPT !.raised = "AttributeError"]
            ELSE [r1 EXCEPT !.progressbar.text = <<"Render complete">>,
                            !.closeVisible = TRUE,
                            !.cancelVisible = FALSE]
  ELSE IF r.progress # "None"
    THEN IF message = "PLAYING"
           THEN [r EXCEPT !.timestarted = r.now, !.inhibited = TRUE]
           ELSE [r EXCEPT !.inhibited = FALSE]
  ELSE r

\* int(x) of Python, for the quotient n / d: towards zero.
Trunc(n, d) == IF n >= 0 THEN n \div d ELSE -((-n) \div d)

Min(a, b) == IF a <= b THEN a ELSE b

\* beautify_ETA: a text that names the duration left.
beautify_ETA(t) == <<"ETA", t>>

\* RenderingProgressDialog.updatePosition
updatePosition(r, fraction, estimated) ==
  [r EXCEPT !.progressbar =
     [fraction |-> fraction,
      text |-> IF estimated # <<>> THEN <<"About left", estimated>>
               ELSE <<"Estimating...">>]]

\* RenderDialog._updatePositionCb: the fraction is the pair <<numerator,
\* denominator>> of the quotient the code computes.
updatePositionCb(r, position) ==
  IF r.progress = "None" THEN r
  ELSE LET timediff == r.now - r.timestarted
       IN IF r.length = 0 THEN [r EXCEPT !.raised = "ZeroDivisionError"]
          ELSE updatePosition(r, <<Min(position, r.length), r.length>>,
                 IF timediff > ETA_DELAY /\ position # 0
                   THEN beautify_ETA(
                          Trunc((timediff * r.length - timediff * position)
                                  * GstSECOND, position))
                   ELSE <<>>)

\* One step of the render dialog or of its environment.
RenderStep(r, name) ==
  /\ InstallRender(r)
  /\ rdOp' = name

\* The Render button of the dialog is clicked.
RenderClicked ==
  /\ windowShown
  /\ RenderStep([renderButtonClickedCb(RenderWorld)
                   EXCEPT !.enteredPlaying = -1], "render")
  /\ UNCHANGED notified

\* The Cancel button of the progress dialog is clicked.
CancelClicked ==
  /\ progressWindow = "shown"
  /\ cancelVisible
  /\ RenderStep(cancelRender(RenderWorld), "cancel")
  /\ UNCHANGED notified

\* The Pause button of the progress dialog is clicked.
PauseClicked ==
  /\ progressWindow = "shown"
  /\ cancelVisible
  /\ Len(busQueue) < MaxQueue
  /\ RenderStep(pauseRender(RenderWorld), "pause")
  /\ UNCHANGED notified

\* The Close button of the progress dialog is clicked.
CloseClicked ==
  /\ progressWindow = "shown"
  /\ closeVisible
  /\ RenderStep(progressCloseButtonClickedCb(RenderWorld), "close")
  /\ UNCHANGED notified

\* The playing pipeline reaches the end of the timeline.
EndOfStream ==
  /\ pipeState = "PLAYING"
  /\ pipeMode = "SMART_RENDER"
  /\ Len(busQueue) < MaxQueue
  /\ \A i \in 1..Len(busQueue) : busQueue[i] # "EOS"
  /\ RenderStep([RenderWorld EXCEPT !.busQueue = Append(busQueue, "EOS")],
                "eos")
  /\ UNCHANGED notified

\* The main loop takes the oldest message off the bus; the dialog's
\* handler runs if it is connected.
BusMessage ==
  /\ busQueue # <<>>
  /\ LET message == Head(busQueue)
         r == [RenderWorld EXCEPT !.busQueue = Tail(busQueue)]
     IN IF handlers["bus"] > 0
          THEN LET r1 == busMessageCb(r, message)
               IN RenderStep(
                    [r1 EXCEPT !.enteredPlaying =
                       IF message = "PLAYING" THEN now
                       ELSE r1.enteredPlaying],
                    "bus")
          ELSE RenderStep(r, "unheard")
  /\ UNCHANGED notified

\* The pipeline emits "position".
PositionNotified(position) ==
  /\ notified' = position
  /\ IF handlers["position"] > 0
       THEN RenderStep(updatePositionCb(RenderWorld, position), "position")
       ELSE RenderStep(RenderWorld, "unheard")

\* A second passes.
Tick ==
  /\ now < MaxClock
  /\ RenderStep([RenderWorld EXCEPT !.now = now + 1], "tick")
  /\ UNCHANGED notified

\* RenderDialog.__init__, on a timeline of duration d.
InitRenderOn(d) ==
  /\ progress = "None"
  /\ progressWindow = "none"
  /\ progressbar = [fraction |-> <<>>, text |-> <<>>]
  /\ cancelVisible = FALSE
  /\ closeVisible = FALSE
  /\ windowShown = TRUE
  /\ pipeState = "PAUSED"
  /\ pipeMode = "FULL_PREVIEW"
  /\ gstSigId = {}
  /\ handlers = [s \in SignalSources |-> 0]
  /\ busQueue = <<>>
  /\ timestarted = 0
  /\ inhibited = FALSE
  /\ now = StartClock
  /\ length = d
  /\ notified = 0
  /\ enteredPlaying = -1
  /\ renderRaised = "none"
  /\ rdOp = "none"

InitRender == InitRenderOn(1)

(* --------------------------- the render presets ------------------------- *)
(* The preset manager (pitivi.preset) keeps named presets in order; no two *)
(* of its presets have the same name, and a creation or a rename that      *)
(* would break that ends with DuplicatePresetNameException.                *)

\* "New preset" for 0, "New preset %d" % i otherwise.
NewPresetName(i) == IF i = 0 THEN <<"New preset">> ELSE <<"New preset", i>>

\* The texts a user types as a preset's name.
TextPool == {NewPresetName(0), NewPresetName(1), <<"Mine">>}

\* PresetManager.getPresetNames
getPresetNames(ps) == {ps[i] : i \in 1..Len(ps)}

\* PresetManager.addPreset: [presets, raised]
addPreset(ps, name) ==
  IF name \in getPresetNames(ps)
    THEN [presets |-> ps, raised |-> "DuplicatePresetNameException"]
    ELSE [presets |-> Append(ps, name), raised |-> "none"]

\* PresetManager.renamePreset: [presets, raised]
renamePreset(ps, path, new_name) ==
  IF ps[path] = new_name THEN [presets |-> ps, raised |-> "none"]
  ELSE IF new_name \in getPresetNames(ps)
    THEN [presets |-> ps, raised |-> "DuplicatePresetNameException"]
  ELSE [presets |-> [ps EXCEPT ![path] = new_name], raised |-> "none"]

\* PresetManager.removePreset, by the preset's row
removePreset(ps, path) ==
  [i \in 1..(Len(ps) - 1) |-> IF i < path THEN ps[i] ELSE ps[i + 1]]

\* A name for a new preset that does not look at the existing ones.
getUniquePresetNameBlind(names, i) == NewPresetName(0)

\* RenderDialog._getUniquePresetName: the loop, about to try number i
\* (0 is the first candidate, "New preset").
RECURSIVE getUniquePresetName(_, _)
getUniquePresetName(names, i) ==
  IF NewPresetName(i) \in names THEN getUniquePresetName(names, i + 1)
  ELSE NewPresetName(i)

\* RenderDialog._addRenderPresetButtonClickedCb; the row inserted is put
\* in editing mode by _newPresetCb, and _presetNameEditingStartedCb hides
\* the error.
AddPresetClicked ==
  /\ Len(presets) < MaxPresets
  /\ LET preset_name == getUniquePresetName(getPresetNames(presets), 0)
         r == addPreset(presets, preset_name)
     IN /\ presets' = r.presets
        /\ presetRaised' = r.raised
        /\ presetError' = IF r.raised = "none" THEN FALSE ELSE presetError
        /\ presetOp' = [name |-> "add", text |-> preset_name, path |-> 0,
                        before |-> presets]

\* RenderDialog._presetNameEditingStartedCb, then _presetNameEditedCb
PresetNameEdited(path, new_text) ==
  /\ path \in 1..Len(presets)
  /\ LET r == renamePreset(presets, path, new_text)
     IN /\ presets' = r.presets
        /\ presetRaised' = "none"
        /\ presetError' = (r.raised = "DuplicatePresetNameException")
        /\ presetOp' = [name |-> "rename", text |-> new_text,
                        path |-> path, before |-> presets]

\* A preset is selected (_presetChangedCb hides the error) and the Remove
\* button is clicked: RenderDialog._removeRenderPresetButtonClickedCb
RemovePresetClicked(path) ==
  /\ path \in 1..Len(presets)
  /\ presets' = removePreset(presets, path)
  /\ presetRaised' = "none"
  /\ presetError' = FALSE
  /\ presetOp' = [name |-> "remove", text |-> presets[path],
                  path |-> path, before |-> presets]

InitPresets ==
  /\ presets = <<>>
  /\ presetError = FALSE
  /\ presetRaised = "none"
  /\ presetOp = [name |-> "none", text |-> <<>>, path |-> 0, before |-> <<>>]

\* The factories of the elements an encode bin adds: the encoders selected
\* in the two combos, and a muxer.
SelectedVideoEncoder == "theoraenc"
SelectedAudioEncoder == "vorbisenc"
AddedFactories == {SelectedVideoEncoder, SelectedAudioEncoder, "oggmux"}

PropertyNames == {"bitrate", "quality"}
PropertyValues == {1, 2}

\* The dictionaries from property names to values.
SettingsDicts == UNION {[K -> PropertyValues] : K \in SUBSET PropertyNames}

\* The orders a dictionary's keys may be iterated in.
KeyOrders(d) ==
  {o \in UNION {[1..n -> DOMAIN d] : n \in {Cardinality(DOMAIN d)}} :
     \A i, j \in DOMAIN o : i # j => o[i] # o[j]}

\* for setting in keys: element.set_property(setting, values[setting]),
\* from the i-th key on; r is [props, raised].
RECURSIVE setProperties(_, _, _, _)
setProperties(r, keys, values, i) ==
  IF i > Len(keys) THEN r
  ELSE IF keys[i] \notin DOMAIN values
    THEN [r EXCEPT !.raised = "KeyError"]
  ELSE setProperties(
         [r EXCEPT !.props = (keys[i] :> values[keys[i]]) @@ r.props],
         keys, values, i + 1)

\* RenderDialog._elementAddedCb, the keys of the two dictionaries being
\* iterated in the orders vkeys and akeys.
elementAddedCb(factory, vkeys, akeys) ==
  LET r == [props |-> <<>>, raised |-> "none"]
  IN IF factory = SelectedVideoEncoder
       THEN setProperties(r, vkeys, vcodecsettings, 1)
     ELSE IF factory = SelectedAudioEncoder
       THEN setProperties(r, akeys, vcodecsettings, 1)
     ELSE r

\* The encode bin adds an element of the factory: "element-added".
ElementAdded(factory) ==
  /\ \E vkeys \in KeyOrders(vcodecsettings), akeys \in KeyOrders(acodecsettings) :
       LET r == elementAddedCb(factory, vkeys, akeys)
       IN /\ addedProps' = r.props
          /\ addedRaised' = r.raised
  /\ addedFactory' = factory
  /\ UNCHANGED <<vcodecsettings, acodecsettings>>

InitEncodeWith(v, a) ==
  /\ vcodecsettings = v
  /\ acodecsettings = a
  /\ addedFactory = "none"
  /\ addedProps = <<>>
  /\ addedRaised = "none"

InitEncode == InitEncodeWith(<<>>, <<>>)

(* ------------------ the muxer and the encoder combos -------------------- *)
(* What the model takes from GTK and from pitivi.utils.ui:                 *)
(*   - combo.set_model leaves the combo without a selected row and emits   *)
(*     nothing; set_active emits "changed" when the selected row changes;  *)
(*   - an exception a signal handler ends with is reported and does not    *)
(*     reach the code that caused the emission;                            *)
(*   - set_combo_value(combo, value, default_index) selects the row of the *)
(*     value, and the row default_index when there is none.                *)

MuxerChoices == {"oggmux", "matroskamux", "ffmux_mp4"}
VideoEncoders == {"theoraenc", "x264enc", "ffenc_h263"}
AudioEncoders == {"vorbisenc", "faac"}
ProjectNames == {<<"Untitled">>, <<"my", "movie">>}

\* extension_for_muxer: the table's entry, "None" when there is none
extension_for_muxer(muxer) ==
  CASE muxer = "oggmux" -> "ogv"
    [] muxer = "matroskamux" -> "mkv"
    [] OTHER -> "None"

\* os.path.splitext(name)[0], a name being the sequence of its parts
\* between dots: the last part is the extension when there are several.
splitextRoot(name) ==
  IF Len(name) > 1 THEN SubSeq(name, 1, Len(name) - 1) ELSE name

\* factory.get_rank()
get_rank(f) == IF f = "ffenc_h263" THEN 0 ELSE 256

\* The factories in the order of their beautified names.
DisplayOrder == <<"faac", "ffenc_h263", "theoraenc", "vorbisenc", "x264enc">>

\* factorylist: the factories of positive rank, sorted by display name
factorylist(fs) ==
  SelectSeq(DisplayOrder, LAMBDA f : f \in fs /\ get_rank(f) > 0)

\* settings.getVideoEncoders(): the video encoders compatible with the muxer
getVideoEncoders(muxer) ==
  CASE muxer = "oggmux" -> {"theoraenc"}
    [] muxer = "matroskamux" -> {"theoraenc", "x264enc", "ffenc_h263"}
    [] OTHER -> {"x264enc", "ffenc_h263"}

\* settings.getAudioEncoders(): the audio encoders compatible with the muxer
getAudioEncoders(muxer) ==
  CASE muxer = "oggmux" -> {"vorbisenc"}
    [] muxer = "matroskamux" -> {"vorbisenc", "faac"}
    [] OTHER -> {"faac"}

ComboWorld ==
  [muxer |-> settingsMuxer, vencoder |-> settingsVencoder,
   aencoder |-> settingsAencoder, fileentry |-> fileentry,
   preferred_vencoder |-> preferred_vencoder,
   preferred_aencoder |-> preferred_aencoder,
   muxer_combo_changing |-> muxer_combo_changing,
   vmodel |-> vmodel, vactive |-> vactive,
   amodel |-> amodel, aactive |-> aactive, raised |-> "none"]

InstallCombo(d) ==
  /\ settingsMuxer' = d.muxer
  /\ settingsVencoder' = d.vencoder
  /\ settingsAencoder' = d.aencoder
  /\ fileentry' = d.fileentry
  /\ preferred_vencoder' = d.preferred_vencoder
  /\ preferred_aencoder' = d.preferred_aencoder
  /\ muxer_combo_changing' = d.muxer_combo_changing
  /\ vmodel' = d.vmodel
  /\ vactive' = d.vactive
  /\ amodel' = d.amodel
  /\ aactive' = d.aactive
  /\ comboRaised' = d.raised

\* RenderDialog.updateFilename
updateFilename(d, basename) ==
  LET extension == extension_for_muxer(d.muxer)
  IN [d EXCEPT !.fileentry = IF extension # "None"
                               THEN Append(basename, extension)
                               ELSE basename]

\* RenderDialog._videoEncoderComboChangedCb
videoEncoderComboChangedCb(d) ==
  IF d.vactive = "None" THEN [d EXCEPT !.raised = "AttributeError"]
  ELSE [d EXCEPT !.vencoder = d.vactive,
                 !.preferred_vencoder =
                   IF ~d.muxer_combo_changing THEN d.vactive ELSE @]

\* RenderDialog._audioEncoderChangedComboCb
audioEncoderChangedComboCb(d) ==
  IF d.aactive = "None" THEN [d EXCEPT !.raised = "AttributeError"]
  ELSE [d EXCEPT !.aencoder = d.aactive,
                 !.preferred_aencoder =
                   IF ~d.muxer_combo_changing THEN d.aactive ELSE @]

\* The row index of a combo: 0 is the first row, "None" no row.
RowAt(rows, index) ==
  IF index + 1 \in 1..Len(rows) THEN rows[index + 1] ELSE "None"

\* encoder_combo.set_active(index), with the "changed" it emits
set_active(d, isVideo, index) ==
  IF isVideo
    THEN LET row == RowAt(d.vmodel, index)
         IN IF row = d.vactive THEN d
            ELSE [videoEncoderComboChangedCb([d EXCEPT !.vactive = row])
                    EXCEPT !.raised = d.raised]
    ELSE LET row == RowAt(d.amodel, index)
         IN IF row = d.aactive THEN d
            ELSE [audioEncoderChangedComboCb([d EXCEPT !.aactive = row])
                    EXCEPT !.raised = d.raised]

\* The index of the row holding value, -1 when no row does.
RowOf(rows, value) ==
  IF \E i \in 1..Len(rows) : rows[i] = value
    THEN (CHOOSE i \in 1..Len(rows) : rows[i] = value) - 1
    ELSE -1

\* set_combo_value(encoder_combo, value, default_index)
set_combo_value(d, isVideo, value, default_index) ==
  LET rows == IF isVideo THEN d.vmodel ELSE d.amodel
  IN IF RowOf(rows, value) >= 0 THEN set_active(d, isVideo, RowOf(rows, value))
     ELSE set_active(d, isVideo, default_index)

\* An encoder combo that always shows its first row.
updateEncoderComboFirst(d, isVideo, preferred_encoder) ==
  set_active(d, isVideo, 0)

\* RenderDialog._updateEncoderCombo
updateEncoderCombo(d, isVideo, preferred_encoder) ==
  IF preferred_encoder # "None"
    THEN set_combo_value(d, isVideo, preferred_encoder, 0)
    ELSE set_active(d, isVideo, 0)

\* RenderDialog.updateAvailableEncoders; fails: the settings cannot list
\* the encoders.
updateAvailableEncoders(d, fails) ==
  IF fails THEN [d EXCEPT !.raised = "KeyError"]
  ELSE LET d1 == [d EXCEPT !.vmodel = factorylist(getVideoEncoders(d.muxer)),
                           !.vactive = "None"]
           d2 == [d1 EXCEPT !.amodel = factorylist(getAudioEncoders(d.muxer)),
                            !.aactive = "None"]
           d3 == updateEncoderCombo(d2, TRUE, d2.preferred_vencoder)
       IN updateEncoderCombo(d3, FALSE, d3.preferred_aencoder)

\* A muxer change that does not announce itself to the encoder combos.
muxerComboChangedCbUnflagged(d, muxer, fails) ==
  LET d1 == [d EXCEPT !.muxer = muxer]
      d2 == updateFilename(d1, splitextRoot(d1.fileentry))
  IN updateAvailableEncoders(d2, fails)

\* RenderDialog._muxerComboChangedCb, the combo showing muxer
muxerComboChangedCb(d, muxer, fails) ==
  LET d1 == [d EXCEPT !.muxer = muxer]
      d2 == updateFilename(d1, splitextRoot(d1.fileentry))
      d3 == updateAvailableEncoders([d2 EXCEPT !.muxer_combo_changing = TRUE],
                                    fails)
  IN [d3 EXCEPT !.muxer_combo_changing = FALSE]

\* The user picks another container format.
MuxerComboChanged(muxer, fails) ==
  /\ muxer # settingsMuxer
  /\ InstallCombo(muxerComboChangedCb(ComboWorld, muxer, fails))
  /\ comboOp' = [name |-> "muxer", vbefore |-> vactive, abefore |-> aactive]
  /\ UNCHANGED userBase

\* The user picks another row of the video encoder combo.
VideoEncoderComboChanged(f) ==
  /\ \E i \in 1..Len(vmodel) : vmodel[i] = f
  /\ f # vactive
  /\ InstallCombo(set_active(ComboWorld, TRUE, RowOf(vmodel, f)))
  /\ comboOp' = [name |-> "vencoder", vbefore |-> vactive, abefore |-> aactive]
  /\ UNCHANGED userBase

\* The user picks another row of the audio encoder combo.
AudioEncoderComboChanged(f) ==
  /\ \E i \in 1..Len(amodel) : amodel[i] = f
  /\ f # aactive
  /\ InstallCombo(set_active(ComboWorld, FALSE, RowOf(amodel, f)))
  /\ comboOp' = [name |-> "aencoder", vbefore |-> vactive, abefore |-> aactive]
  /\ UNCHANGED userBase

\* RenderDialog.__init__ for a project of the given name and settings:
\* updateFilename with the name, the preferred encoders taken from the
\* settings, and _displayRenderSettings showing the settings' muxer.
InitComboWith(name, muxer, vencoder, aencoder) ==
  LET d0 == [muxer |-> muxer, vencoder |-> vencoder, aencoder |-> aencoder,
             fileentry |-> <<>>,
             preferred_vencoder |-> vencoder, preferred_aencoder |-> aencoder,
             muxer_combo_changing |-> FALSE,
             vmodel |-> <<>>, vactive |-> "None",
             amodel |-> <<>>, aactive |-> "None", raised |-> "none"]
      d == muxerComboChangedCb(updateFilename(d0, name), muxer, FALSE)
  IN /\ settingsMuxer = d.muxer
     /\ settingsVencoder = d.vencoder
     /\ settingsAencoder = d.aencoder
     /\ fileentry = d.fileentry
     /\ userBase = name
     /\ preferred_vencoder = d.preferred_vencoder
     /\ preferred_aencoder = d.preferred_aencoder
     /\ muxer_combo_changing = d.muxer_combo_changing
     /\ vmodel = d.vmodel
     /\ vactive = d.vactive
     /\ amodel = d.amodel
     /\ aactive = d.aactive
     /\ comboRaised = d.raised
     /\ comboOp = [name |-> "none", vbefore |-> "None", abefore |-> "None"]

InitCombo == InitComboWith(<<"Untitled">>, "oggmux", "theoraenc", "vorbisenc")

InitDialog ==
  /\ InitPresets
  /\ InitEncode
  /\ InitCombo

(* ------------------ timeline.py: Timeline.split ------------------------- *)
(* A clip has a start and a duration and one track element, of the same    *)
(* start and duration, in each track of its set of tracks.  GES keeps the  *)
(* elements of a clip in step with the clip: when clip.split() returns,    *)
(* the clip and its elements end at the position and a new clip, with an   *)
(* element in each of the same tracks, begins there.                       *)

\* bTimeline.get_tracks(): the tracks, in the order the loop visits them
get_tracks == <<"VIDEO", "AUDIO">>

\* track.get_elements(): the elements of the track, each named by its clip
get_elements(cs, track) ==
  SelectSeq([i \in 1..Len(cs) |-> i], LAMBDA c : track \in cs[c].tracks)

\* GES clip.split(position); a position outside the clip splits nothing
clipSplit(cs, c, position) ==
  LET end == cs[c].start + cs[c].duration
  IN IF cs[c].start < position /\ position < end
       THEN Append([cs EXCEPT ![c].duration = position - cs[c].start],
                   [start |-> position, duration |-> end - position,
                    tracks |-> cs[c].tracks])
       ELSE cs

\* the test of split() with <= in place of <
splitsHereInclusive(start, end, position) == start <= position /\ end >= position

\* the test split() makes of an element
splitsHere(start, end, position) == start < position /\ end > position

\* the inner loop of split() over the elements of one track
RECURSIVE splitElements(_, _, _)
splitElements(w, els, position) ==
  IF els = <<>> THEN w
  ELSE LET clip == Head(els)
           start == w.clips[clip].start
           end == start + w.clips[clip].duration
           w1 == IF splitsHere(start, end, position)
                   THEN [w EXCEPT !.clips = clipSplit(w.clips, clip, position),
                                  !.calls = Append(w.calls, clip)]
                   ELSE w
       IN splitElements(w1, Tail(els), position)

\* the outer loop of split() over the tracks
RECURSIVE splitTracks(_, _, _)
splitTracks(w, tracks, position) ==
  IF tracks = <<>> THEN w
  ELSE splitTracks(splitElements(w, get_elements(w.clips, Head(tracks)), position),
                   Tail(tracks), position)

\* Timeline.split(): w is [clips, calls, updates]
split(w, position) ==
  LET w1 == [w EXCEPT !.updates = FALSE]
      w2 == splitTracks(w1, get_tracks, position)
  IN [w2 EXCEPT !.updates = TRUE]

\* The user splits at the playhead, the pipeline being at the position.
Split(position) ==
  LET w == split([clips |-> clips, calls |-> <<>>, updates |-> updateEnabled],
                 position)
  IN /\ clips' = w.clips
     /\ splitCalls' = w.calls
     /\ updateEnabled' = w.updates
     /\ splitOp' = [name |-> "split", position |-> position, before |-> clips]
     /\ UNCHANGED <<selected, tlTracks, tlLayers, prio, elemTrack, elemLayer,
                    stageVars, moveVars, viewVars>>

\* The user selects clips or unselects them.
SelectionChanged(sel) ==
  /\ sel # selected
  /\ selected' = sel
  /\ splitOp' = [splitOp EXCEPT !.name = "select"]
  /\ UNCHANGED <<clips, splitCalls, timelineVars>>

InitSplit ==
  /\ clips = <<>>
  /\ selected = {}
  /\ splitCalls = <<>>
  /\ splitOp = [name |-> "none", position |-> 0, before |-> <<>>]

InitMove ==
  /\ pc = "idle"
  /\ prioAtCall = [l \in LayerIds |-> 0]
  /\ movedLayer = 0
  /\ priority = 0
  /\ target = 0
  /\ iter = <<>>

InitCache ==
  /\ registry = <<>>
  /\ cacheCreated = FALSE
  /\ factories = <<>>
  /\ muxers = <<>>
  /\ audioEncoders = <<>>
  /\ videoEncoders = <<>>
  /\ ret = <<>>
  /\ reads = 0
  /\ combo = <<>>

InitCmp ==
  /\ cmpEncoders = <<>>
  /\ cmpMuxer = "matroskamux"
  /\ cmpRes = <<>>
  /\ cmpDone = FALSE

(* --- SpecLayer: layers are added and reordered on a bound timeline ------ *)

\* Timeline 1, holding a video and an audio track and no layer yet, has
\* been bound with Timeline.setTimeline.
InitLayer ==
  /\ StartsAs(setTimeline([BaseWorld EXCEPT !.tlTracks[1] = TrackTypes], 1))
  /\ binds = 1
  /\ InitMove
  /\ InitCache
  /\ InitRender
  /\ InitDialog
  /\ InitSplit
  /\ InitCmp

NextLayer ==
  \/ LayerAdded(1) /\ UNCHANGED <<splitVars, cacheVars, cmpVars, renderVars, dialogVars>>
  \/ \E b \in ElemIds, ty \in TrackTypes, l \in LayerIds :
       /\ TrackElementAdded(b, <<1, ty>>, l)
       /\ UNCHANGED <<splitVars, cacheVars, cmpVars, renderVars, dialogVars>>
  \/ \E c \in 1..(2 * MaxLayers), tg \in 0..(MaxLayers - 1) :
       MoveLayerBegin(c, tg) /\ UNCHANGED <<splitVars, cacheVars, cmpVars, renderVars, dialogVars>>
  \/ MoveLayerShift /\ UNCHANGED <<splitVars, cacheVars, cmpVars, renderVars, dialogVars>>
  \/ MoveLayerEnd /\ UNCHANGED <<splitVars, cacheVars, cmpVars, renderVars, dialogVars>>

SpecLayer == InitLayer /\ [][NextLayer]_vars

(* --- SpecBind: timelines are bound and re-bound, elements come and go --- *)

\* Two timelines of one layer each exist; the stage is bound to none.
InitBind ==
  /\ StartsAs([BaseWorld EXCEPT !.tlLayers = [t \in Timelines |-> {t}]])
  /\ binds = 0
  /\ InitMove
  /\ InitCache
  /\ InitRender
  /\ InitDialog
  /\ InitSplit
  /\ InitCmp

NextBind ==
  \/ \E t \in Timelines : SetTimeline(t) /\ UNCHANGED <<splitVars, cacheVars, cmpVars, renderVars, dialogVars>>
  \/ \E t \in Timelines, ty \in TrackTypes :
       TrackAdded(t, ty) /\ UNCHANGED <<splitVars, cacheVars, cmpVars, renderVars, dialogVars>>
  \/ \E b \in ElemIds, t \in Timelines, ty \in TrackTypes, l \in LayerIds :
       TrackElementAdded(b, <<t, ty>>, l) /\ UNCHANGED <<splitVars, cacheVars, cmpVars, renderVars, dialogVars>>
  \/ \E b \in ElemIds :
       TrackElementRemoved(b) /\ UNCHANGED <<splitVars, cacheVars, cmpVars, renderVars, dialogVars>>

SpecBind == InitBind /\ [][NextBind]_vars

(* --- SpecZoom: elements come, move and go while the user zooms ---------- *)

\* Timeline 1, holding a video and an audio track and one layer, has been
\* bound with Timeline.setTimeline.
InitZoom ==
  /\ StartsAs(setTimeline([BaseWorld EXCEPT !.tlTracks[1] = TrackTypes,
                                            !.tlLayers[1] = {1}], 1))
  /\ binds = 1
  /\ InitMove
  /\ InitCache
  /\ InitRender
  /\ InitDialog
  /\ InitSplit
  /\ InitCmp

NextZoom ==
  \/ \E b \in ElemIds, s \in 0..(MaxTime - 1), d \in 1..MaxTime :
       /\ TrackElementAddedAt(b, <<1, ElemType(b)>>, 1, s, d)
       /\ UNCHANGED <<splitVars, cacheVars, cmpVars, renderVars, dialogVars>>
  \/ \E b \in ElemIds :
       TrackElementRemoved(b) /\ UNCHANGED <<splitVars, cacheVars, cmpVars, renderVars, dialogVars>>
  \/ \E b \in ElemIds, s \in 0..(MaxTime - 1) :
       StartChanged(b, s) /\ UNCHANGED <<splitVars, cacheVars, cmpVars, renderVars, dialogVars>>
  \/ \E b \in ElemIds, d \in 1..MaxTime :
       DurationChanged(b, d) /\ UNCHANGED <<splitVars, cacheVars, cmpVars, renderVars, dialogVars>>
  \/ \E p \in 0..MaxPos : Position(p) /\ UNCHANGED <<splitVars, cacheVars, cmpVars, renderVars, dialogVars>>
  \/ ZoomIn /\ UNCHANGED <<splitVars, cacheVars, cmpVars, renderVars, dialogVars>>
  \/ ZoomOut /\ UNCHANGED <<splitVars, cacheVars, cmpVars, renderVars, dialogVars>>
  \/ \E v \in 0..zoom_steps : ZoomSlider(v) /\ UNCHANGED <<splitVars, cacheVars, cmpVars, renderVars, dialogVars>>
  \/ \E delta \in {-1, 1} : CtrlScroll(delta) /\ UNCHANGED <<splitVars, cacheVars, cmpVars, renderVars, dialogVars>>
  \/ ZoomFit /\ UNCHANGED <<splitVars, cacheVars, cmpVars, renderVars, dialogVars>>

SpecZoom == InitZoom /\ [][NextZoom]_vars

(* --- SpecSnap: snapping is reported while layers come and the user zooms  *)

NextSnap ==
  \/ LayerAdded(1) /\ UNCHANGED <<splitVars, cacheVars, cmpVars, renderVars, dialogVars>>
  \/ \E p \in 0..MaxPos : SnapStarted(p) /\ UNCHANGED <<splitVars, cacheVars, cmpVars, renderVars, dialogVars>>
  \/ SnapEnded /\ UNCHANGED <<splitVars, cacheVars, cmpVars, renderVars, dialogVars>>
  \/ ZoomIn /\ UNCHANGED <<splitVars, cacheVars, cmpVars, renderVars, dialogVars>>
  \/ ZoomOut /\ UNCHANGED <<splitVars, cacheVars, cmpVars, renderVars, dialogVars>>

SpecSnap == InitLayer /\ [][NextSnap]_vars

(* --- SpecCache: the registry grows, the encoder lists are asked for ----- *)

InitCacheSpec ==
  /\ StartsAs(BaseWorld)
  /\ binds = 0
  /\ InitMove
  /\ InitCache
  /\ InitRender
  /\ InitDialog
  /\ InitSplit
  /\ InitCmp

NextCache ==
  \/ \E f \in RegistryPool :
       FeatureAdded(f) /\ UNCHANGED <<splitVars, timelineVars, cmpVars, renderVars, dialogVars>>
  \/ available_muxers /\ UNCHANGED <<splitVars, timelineVars, cmpVars, renderVars, dialogVars>>
  \/ available_audio_encoders /\ UNCHANGED <<splitVars, timelineVars, cmpVars, renderVars, dialogVars>>
  \/ available_video_encoders /\ UNCHANGED <<splitVars, timelineVars, cmpVars, renderVars, dialogVars>>
  \/ available_combinations /\ UNCHANGED <<splitVars, timelineVars, cmpVars, renderVars, dialogVars>>

SpecCache == InitCacheSpec /\ [][NextCache]_vars

(* --- SpecCompat: encoders_muxer_compatible on every bounded input ------- *)

RECURSIVE SeqsUpTo(_, _)
SeqsUpTo(S, n) ==
  IF n = 0 THEN {<<>>}
  ELSE SeqsUpTo(S, n - 1)
       \cup {Append(s, x) : s \in {q \in SeqsUpTo(S, n - 1) : Len(q) = n - 1},
                            x \in S}

InitCompat ==
  /\ StartsAs(BaseWorld)
  /\ binds = 0
  /\ InitMove
  /\ InitCache
  /\ InitRender
  /\ InitDialog
  /\ InitSplit
  /\ cmpEncoders \in SeqsUpTo(EncoderPool, MaxLen)
  /\ cmpMuxer \in MuxerPool
  /\ cmpRes = <<>>
  /\ cmpDone = FALSE

NextCompat == CompatCall /\ UNCHANGED <<splitVars, timelineVars, cacheVars, renderVars, dialogVars>>

SpecCompat == InitCompat /\ [][NextCompat]_vars

(* --- SpecRender: renders are started, paused, cancelled and finished ---- *)

InitRenderSpec ==
  /\ StartsAs(BaseWorld)
  /\ binds = 0
  /\ InitMove
  /\ InitCache
  /\ InitCmp
  /\ \E d \in 0..MaxTime : InitRenderOn(d)
  /\ InitDialog
  /\ InitSplit

NextRender ==
  \/ RenderClicked /\ UNCHANGED <<splitVars, timelineVars, cacheVars, cmpVars, dialogVars>>
  \/ CancelClicked /\ UNCHANGED <<splitVars, timelineVars, cacheVars, cmpVars, dialogVars>>
  \/ PauseClicked /\ UNCHANGED <<splitVars, timelineVars, cacheVars, cmpVars, dialogVars>>
  \/ CloseClicked /\ UNCHANGED <<splitVars, timelineVars, cacheVars, cmpVars, dialogVars>>
  \/ EndOfStream /\ UNCHANGED <<splitVars, timelineVars, cacheVars, cmpVars, dialogVars>>
  \/ BusMessage /\ UNCHANGED <<splitVars, timelineVars, cacheVars, cmpVars, dialogVars>>
  \/ \E p \in 0..(MaxPos + 1) :
       PositionNotified(p) /\ UNCHANGED <<splitVars, timelineVars, cacheVars, cmpVars, dialogVars>>
  \/ Tick /\ UNCHANGED <<splitVars, timelineVars, cacheVars, cmpVars, dialogVars>>

SpecRender == InitRenderSpec /\ [][NextRender]_vars

(* --- SpecPreset: render presets are added, renamed and removed ---------- *)

InitPresetSpec ==
  /\ StartsAs(BaseWorld)
  /\ binds = 0
  /\ InitMove
  /\ InitCache
  /\ InitRender
  /\ InitDialog
  /\ InitSplit
  /\ InitCmp

NextPreset ==
  \/ AddPresetClicked
       /\ UNCHANGED <<splitVars, timelineVars, cacheVars, cmpVars, renderVars, encodeVars, comboVars>>
  \/ \E path \in 1..MaxPresets, new_text \in TextPool :
       /\ PresetNameEdited(path, new_text)
       /\ UNCHANGED <<splitVars, timelineVars, cacheVars, cmpVars, renderVars, encodeVars, comboVars>>
  \/ \E path \in 1..MaxPresets :
       /\ RemovePresetClicked(path)
       /\ UNCHANGED <<splitVars, timelineVars, cacheVars, cmpVars, renderVars, encodeVars, comboVars>>

SpecPreset == InitPresetSpec /\ [][NextPreset]_vars

(* --- SpecRows: layers, tracks and elements come and go ------------------ *)

\* No more than MaxLayers layers are ever added: the controls of a removed
\* layer stay in the container.
NextRows ==
  \/ /\ Len(controlActors) < 2 * MaxLayers
     /\ LayerAdded(1)
     /\ UNCHANGED <<splitVars, cacheVars, cmpVars, renderVars, dialogVars>>
  \/ LayerRemoved(1) /\ UNCHANGED <<splitVars, cacheVars, cmpVars, renderVars, dialogVars>>
  \/ \E ty \in TrackTypes :
       TrackAdded(1, ty) /\ UNCHANGED <<splitVars, cacheVars, cmpVars, renderVars, dialogVars>>
  \/ \E ty \in TrackTypes :
       TrackRemoved(1, ty) /\ UNCHANGED <<splitVars, cacheVars, cmpVars, renderVars, dialogVars>>
  \/ \E b \in ElemIds, l \in LayerIds :
       /\ TrackElementAddedAt(b, <<1, ElemType(b)>>, l, 0, 1)
       /\ UNCHANGED <<splitVars, cacheVars, cmpVars, renderVars, dialogVars>>
  \/ \E b \in ElemIds :
       TrackElementRemoved(b) /\ UNCHANGED <<splitVars, cacheVars, cmpVars, renderVars, dialogVars>>

SpecRows == InitLayer /\ [][NextRows]_vars

(* --- SpecElement: _elementAddedCb on every bounded pair of settings ----- *)

InitElement ==
  /\ StartsAs(BaseWorld)
  /\ binds = 0
  /\ InitMove
  /\ InitCache
  /\ InitRender
  /\ InitPresets
  /\ InitSplit
  /\ InitCombo
  /\ \E v \in SettingsDicts, a \in SettingsDicts : InitEncodeWith(v, a)
  /\ InitCmp

NextElement ==
  \E factory \in AddedFactories :
    /\ ElementAdded(factory)
    /\ UNCHANGED <<splitVars, timelineVars, cacheVars, cmpVars, renderVars, presetVars, comboVars>>

SpecElement == InitElement /\ [][NextElement]_vars

(* --- SpecMuxer: the user changes container format and encoders ---------- *)

InitMuxer ==
  /\ StartsAs(BaseWorld)
  /\ binds = 0
  /\ InitMove
  /\ InitCache
  /\ InitRender
  /\ InitPresets
  /\ InitSplit
  /\ InitEncode
  /\ \E name \in ProjectNames, muxer \in MuxerChoices,
        vencoder \in {"theoraenc", "None"}, aencoder \in {"vorbisenc", "None"} :
       InitComboWith(name, muxer, vencoder, aencoder)
  /\ InitCmp

NextMuxer ==
  \/ \E muxer \in MuxerChoices, fails \in BOOLEAN :
       /\ MuxerComboChanged(muxer, fails)
       /\ UNCHANGED <<splitVars, timelineVars, cacheVars, cmpVars, renderVars, presetVars,
                      encodeVars>>
  \/ \E f \in VideoEncoders :
       /\ VideoEncoderComboChanged(f)
       /\ UNCHANGED <<splitVars, timelineVars, cacheVars, cmpVars, renderVars, presetVars,
                      encodeVars>>
  \/ \E f \in AudioEncoders :
       /\ AudioEncoderComboChanged(f)
       /\ UNCHANGED <<splitVars, timelineVars, cacheVars, cmpVars, renderVars, presetVars,
                      encodeVars>>

SpecMuxer == InitMuxer /\ [][NextMuxer]_vars

(* --- SpecSplit: clips are selected and split at the playhead ------------ *)

ClipChoices ==
  [start : 0..MaxPos, duration : 1..MaxLen, tracks : (SUBSET TrackTypes) \ {{}}]

InitSplitSpec ==
  /\ StartsAs(BaseWorld)
  /\ binds = 0
  /\ InitMove
  /\ InitCache
  /\ InitCmp
  /\ InitRender
  /\ InitDialog
  /\ clips \in [1..MaxElems -> ClipChoices]
  /\ selected = {}
  /\ splitCalls = <<>>
  /\ splitOp = [name |-> "none", position |-> 0, before |-> <<>>]

NextSplit ==
  \/ \E position \in 0..(MaxPos + MaxLen) :
       /\ Split(position)
       /\ UNCHANGED <<cacheVars, cmpVars, renderVars, dialogVars>>
  \/ \E sel \in {{}, {1}} :
       /\ SelectionChanged(sel)
       /\ UNCHANGED <<cacheVars, cmpVars, renderVars, dialogVars>>

SpecSplit == InitSplitSpec /\ [][NextSplit]_vars

(* ================================ claims ================================ *)

BoundLayers == IF bTimeline = NoTimeline THEN {} ELSE tlLayers[bTimeline]

RowHeight == EXPANDED_SIZE + SPACING

(* C1: between moveLayer calls (no call in progress), the priorities of    *)
(* the n layers of the timeline are exactly 0..n-1, no two layers sharing  *)
(* one, whatever sequence of moveLayer(control, target) calls with         *)
(* 0 <= target < n came before.                                            *)
C1_PrioritiesArePermutation ==
  Idle =>
    /\ {prio[l] : l \in BoundLayers} = 0..(Cardinality(BoundLayers) - 1)
    /\ \A l1, l2 \in BoundLayers : l1 # l2 => prio[l1] # prio[l2]

\* A move over two other layers has returned.
C1_Witness ==
  /\ pc = "returned"
  /\ Cardinality(BoundLayers) = 3
  /\ priority = 2
  /\ target = 0
  /\ prio[movedLayer] = 0

(* C2: in every state, the intermediate states of a moveLayer call         *)
(* included, no two layers of the timeline have the same priority.         *)
C2_NoSharedPriority ==
  \A l1, l2 \in BoundLayers : l1 # l2 => prio[l1] # prio[l2]

(* C3: a reorder is atomic for the viewport.  Every step that ends inside  *)
(* a moveLayer call that reorders (its target is not the layer's priority; *)
(* a priority assignment is still to come) ends with update propagation    *)
(* disabled and has moved no element and no layer control; the step that   *)
(* returns from a call ends with updates enabled.                          *)
C3_ReorderIsAtomic ==
  [][/\ (pc' \in {"up", "down", "assign"} /\ priority' # target' =>
           /\ ~updateEnabled'
           /\ elements' = elements
           /\ controlActors' = controlActors)
     /\ (pc = "assign" /\ pc' = "returned" => updateEnabled')]_vars

\* The layer's priority was changed by the moveLayer call that returned.
Affected(l) ==
  /\ priority # target
  /\ \/ l = movedLayer
     \/ priority > target /\ target < prio[l] /\ prio[l] <= priority
     \/ priority < target /\ priority <= prio[l] /\ prio[l] < target

(* C4: when moveLayer has returned, every displayed element of a layer     *)
(* whose priority the call changed (moved or shifted) is at the y of the   *)
(* layer's new priority: priority * row height + spacing, one block of     *)
(* rows lower for an audio element.                                        *)
C4_AffectedElementsRepositioned ==
  pc = "returned" =>
    \A i \in 1..Len(elements) :
      LET b == elements[i].b
      IN Affected(elemLayer[b]) =>
           elements[i].y =
             prio[elemLayer[b]] * RowHeight + SPACING
             + (IF elemTrack[b][2] = "AUDIO"
                  THEN Cardinality(BoundLayers) * RowHeight ELSE 0)

\* A call has returned that shifted a layer with a displayed element and
\* moved a layer with another displayed element.
C4_Witness ==
  /\ pc = "returned"
  /\ \E i, j \in 1..Len(elements) :
       /\ elemLayer[elements[i].b] # movedLayer
       /\ Affected(elemLayer[elements[i].b])
       /\ elemLayer[elements[j].b] = movedLayer
       /\ priority # target

(* C5: once the widget has been bound more than once, no callback of the   *)
(* stage is connected to a timeline other than the bound one or to a track *)
(* of such a timeline, and every signal of the bound timeline, of its      *)
(* tracks and of the selection has exactly one handler.                    *)
C5_NoListenerLeak ==
  binds >= 2 =>
    /\ \A t \in Timelines \ {bTimeline} :
         /\ \A i \in 1..Len(TimelineCallbacks) :
              CopiesIn(OnTimeline(t, TimelineCallbacks[i]), conns) = 0
         /\ \A ty \in TrackTypes, i \in 1..Len(TrackCallbacks) :
              CopiesIn(OnTrack(<<t, ty>>, TrackCallbacks[i]), conns) = 0
    /\ \A i \in 1..Len(TimelineCallbacks) :
         CopiesIn(OnTimeline(bTimeline, TimelineCallbacks[i]), conns) = 1
    /\ \A ty \in tlTracks[bTimeline], i \in 1..Len(TrackCallbacks) :
         CopiesIn(OnTrack(<<bTimeline, ty>>, TrackCallbacks[i]), conns) = 1
    /\ CopiesIn(OnSelection("_selectionChangedCb"), conns) = 1

HasProxy(b) == \E i \in 1..Len(elements) : elements[i].b = b

\* This step removes element b from its track.
Removes(b) == elemTrack[b] \notin {NoTrack, Gone} /\ elemTrack'[b] = Gone

(* C6: after the removal of a displayed element has been handled, none of  *)
(* the four callbacks connected when it was added is connected to it, and  *)
(* no proxy of it is in the stage's element list.                          *)
C6_RemovedElementUnsubscribed ==
  [][\A b \in ElemIds :
       Removes(b) /\ HasProxy(b) =>
         /\ \A i \in 1..Len(ElementCallbacks) :
              CopiesIn(OnElement(b, ElementCallbacks[i]), conns') = 0
         /\ \A i \in 1..Len(elements') : elements'[i].b # b]_vars

(* C7: a removal notification for an element that has no proxy is a       *)
(* no-op: the element list is as before and the handler raised nothing.    *)
C7_UnknownRemovalIsNoOp ==
  [][\A b \in ElemIds :
       /\ Removes(b)
       /\ ~HasProxy(b)
       /\ CopiesIn(OnTrack(elemTrack[b], "_trackElementRemovedCb"), conns) > 0
       => elements' = elements /\ raised' = "none"]_vars

(* C8: every list returned since the last feature-added notification is   *)
(* the classification of the registry's factory list as it is now, which   *)
(* is the list as it was at the call.                                      *)
C8_ReturnedListsAreCurrent ==
  \A i \in 1..Len(ret) : ret[i].list = buildFactories(registry)[ret[i].kind]

\* The cache was built on an empty registry, a factory was added, and the
\* next call returned a list holding the new factory.
C8_Witness ==
  /\ reads = 2
  /\ Len(registry) = 1
  /\ ret # <<>>
  /\ ret[Len(ret)].list = registry

(* C9: the registry is read only by the first list call and by the first   *)
(* list call after a feature-added notification; the notification's        *)
(* handler reads and rebuilds nothing, and a list call that follows a list *)
(* call leaves the cached lists as they are.                               *)
C9_RebuildOnlyWhenInvalidated ==
  [][/\ (ret' = <<>> =>
           /\ reads' = reads
           /\ UNCHANGED <<muxers, audioEncoders, videoEncoders>>)
     /\ (ret = <<>> /\ ret' # <<>> => reads' = reads + 1)
     /\ (ret # <<>> /\ ret' # <<>> =>
           /\ reads' = reads
           /\ UNCHANGED <<factories, muxers, audioEncoders, videoEncoders>>)]_vars

\* Two list calls in a row after a rebuild that followed a notification.
C9_Witness == Len(ret) = 2 /\ reads = 2 /\ registry # <<>>

\* Some source template of the encoder and some sink template of the muxer
\* have caps in common.
Fits(encoder) ==
  \E i \in 1..Len(Templates(encoder)), j \in 1..Len(Templates(cmpMuxer)) :
    /\ Templates(encoder)[i].direction = "SRC"
    /\ Templates(cmpMuxer)[j].direction = "SINK"
    /\ Templates(encoder)[i].caps \cap Templates(cmpMuxer)[j].caps # {}

NoRepeat(s) == \A i, j \in 1..Len(s) : i # j => s[i] # s[j]

(* C10: encoders_muxer_compatible(encoders, muxer) returns the encoders of *)
(* the input list that fit the muxer, in the input's order, one entry for  *)
(* each fitting entry of the input (so none twice when the input names     *)
(* none twice), and the empty list when none fits or the muxer has no      *)
(* sink template.                                                          *)
C10_CompatibleEncoders ==
  cmpDone =>
    /\ cmpRes = SelectSeq(cmpEncoders, Fits)
    /\ (NoRepeat(cmpEncoders) => NoRepeat(cmpRes))
    /\ ((\A e \in Range(cmpEncoders) : ~Fits(e)) => cmpRes = <<>>)
    /\ (SinkCaps(cmpMuxer) = <<>> => cmpRes = <<>>)

\* An encoder that does not fit and one that fits with two of its
\* templates went in; the second came out once.
C10_Witness ==
  /\ cmpDone
  /\ cmpMuxer = "matroskamux"
  /\ cmpEncoders = <<"emptyenc", "twinenc">>
  /\ cmpRes = <<"twinenc">>

\* Some source template of the encoder and some sink template of the muxer
\* have caps in common.
FitsMuxer(encoder, muxer) ==
  \E i \in 1..Len(Templates(encoder)), j \in 1..Len(Templates(muxer)) :
    /\ Templates(encoder)[i].direction = "SRC"
    /\ Templates(muxer)[j].direction = "SINK"
    /\ Templates(encoder)[i].caps \cap Templates(muxer)[j].caps # {}

\* The encoders of the list that fit the muxer.
FittingIn(list, muxer) == {e \in Range(list) : FitsMuxer(e, muxer)}

(* C11: what available_combinations() returned for the registry as it is:  *)
(* the returned muxers are exactly the muxers of the muxer list that have   *)
(* a fitting encoder in the audio encoder list and one in the video encoder *)
(* list, and both dictionaries have exactly the returned muxers as keys,    *)
(* each mapped to the non-empty list of the muxer's fitting encoders.       *)
C11_CombinationsHaveBoth ==
  combo # <<>> =>
    LET c == combo[1]
        lists == buildFactories(registry)
        both == {m \in Range(lists.muxers) :
                   /\ FittingIn(lists.audioEncoders, m) # {}
                   /\ FittingIn(lists.videoEncoders, m) # {}}
    IN /\ Range(c.containers) = both
       /\ NoRepeat(c.containers)
       /\ DOMAIN c.audio = both
       /\ DOMAIN c.video = both
       /\ \A m \in both :
            /\ c.audio[m] # <<>>
            /\ c.video[m] # <<>>
            /\ Range(c.audio[m]) = FittingIn(lists.audioEncoders, m)
            /\ Range(c.video[m]) = FittingIn(lists.videoEncoders, m)

\* A muxer with both kinds of encoder was returned for a registry holding
\* nothing else.
C11_Witness ==
  /\ combo # <<>>
  /\ combo[1].containers = <<"matroskamux">>
  /\ combo[1].audio["matroskamux"] = <<"vorbisenc">>
  /\ combo[1].video["matroskamux"] = <<"x264enc">>

\* The class tags of factory f include every tag of the set.
Tagged(f, tags) == tags \subseteq Range(Klass(f))

(* C12: every list returned since the last registry notification holds all *)
(* the registry's factories matching its rule: muxers are the factories     *)
(* tagged Codec and Muxer, video encoders those tagged Codec, Encoder and   *)
(* Video or Codec, Encoder and Image, audio encoders those tagged Codec,    *)
(* Encoder and Audio.                                                       *)
C12_ListsHoldAllMatches ==
  \A i \in 1..Len(ret) :
    Range(ret[i].list) =
      {f \in Range(registry) :
         CASE ret[i].kind = "muxers" -> Tagged(f, {"Codec", "Muxer"})
           [] ret[i].kind = "videoEncoders" ->
                \/ Tagged(f, {"Codec", "Encoder", "Video"})
                \/ Tagged(f, {"Codec", "Encoder", "Image"})
           [] OTHER -> Tagged(f, {"Codec", "Encoder", "Audio"})}

(* C13: a step that changes the zoom level writes the x of every displayed  *)
(* element exactly once, leaves it at the element's start converted at the  *)
(* new level, and leaves the playhead's x at the last known position        *)
(* converted at the new level, whatever the levels before.                  *)
C13_ZoomRedrawsOnce ==
  [][zoomLevel' # zoomLevel =>
       /\ \A i \in 1..Len(elements') :
            /\ xWrites'[i] = 1
            /\ elements'[i].x = elemStart'[elements'[i].b] * ZoomRatio(zoomLevel')
       /\ playheadX' = lastPosition' * ZoomRatio(zoomLevel')]_vars

\* Two elements, the second starting at 1, were redrawn at the highest of
\* three levels with the playhead at position 1.
C13_Witness ==
  /\ zoomLevel = 2
  /\ Len(elements) = 2
  /\ elemStart[elements[2].b] = 1
  /\ elements[2].x = 3
  /\ xWrites = <<1, 1>>
  /\ lastPosition = 1
  /\ playheadX = 3

(* C14: a step that changes the zoom level writes no property of the        *)
(* timeline, its layers, clips or track elements.                           *)
C14_ZoomLeavesModelUnchanged ==
  [][zoomLevel' # zoomLevel =>
       UNCHANGED <<gesVars, elemStart, elemDuration, snappingDistance>>]_vars

(* C14, amended: a step that changes the zoom level writes no property of   *)
(* the layers, clips and track elements, and of the timeline only its       *)
(* snapping distance, set to the snap deadband converted at the new level.  *)
C14_ZoomWritesOnlySnappingDistance ==
  [][zoomLevel' # zoomLevel =>
       /\ UNCHANGED <<gesVars, elemStart, elemDuration>>
       /\ snappingDistance' =
            [snappingDistance EXCEPT ![bTimeline] =
               edgeSnapDeadband \div ZoomRatio(zoomLevel')]]_vars

\* The level was raised by one with an element displayed.
C14_Witness ==
  /\ zoomLevel = 1
  /\ snappingDistance[1] = 2
  /\ elements # <<>>
  /\ xWrites = <<1>>

\* The content's width at the current zoom.
ContentsSize == get_duration(World) * ZoomRatio(zoomLevel)

(* C15: while a timeline is bound, the upper bound of the horizontal scroll *)
(* adjustment is the timeline's duration in pixels at the current zoom plus *)
(* the controls' width plus the end padding.                                *)
C15_ScrollUpperTracksDuration ==
  bTimeline # NoTimeline =>
    hadjUpper = ContentsSize + controls_width + end_padding

(* C16: while a timeline is bound, whenever the content's width at the      *)
(* current zoom fits the viewport, the Timeline's zoomed_fitted is True.    *)
C16_FittedFlagSetWhenContentFits ==
  bTimeline # NoTimeline /\ ContentsSize + controls_width <= timeline_ui_width
    => zoomed_fitted = "True"

\* The levels at which the whole timeline is in view.
FittingLevels ==
  {l \in 0..zoom_steps : get_duration(World) * ZoomRatio(l) <= timeline_ui_width}

(* C17: after a best-fit zoom the level is the highest one at which the     *)
(* timeline's duration in pixels is at most the viewport's width when the   *)
(* duration is positive (and some level fits), and 0 when the duration is   *)
(* zero.                                                                    *)
C17_BestFitLevel ==
  op = "zoomFit" =>
    IF get_duration(World) = 0 THEN zoomLevel = 0
    ELSE FittingLevels # {} =>
           /\ zoomLevel \in FittingLevels
           /\ \A l \in FittingLevels : l <= zoomLevel

(* C18: the snap indicator is visible exactly when the last snapping        *)
(* notification was a snapping-started with a non-zero position; the        *)
(* notification leaves its x at the position converted at the current zoom  *)
(* and its height at the height of the current layers; and a                *)
(* snapping-started with position 0 leaves the state a snapping-ended       *)
(* leaves.                                                                  *)
C18_SnapIndicator ==
  [][/\ snap'.visible <=> lastSnap' > 0
     /\ (lastSnap' > 0 /\ <<snap, lastSnap>>' # <<snap, lastSnap>> =>
           /\ snap'.x = lastSnap' * ZoomRatio(zoomLevel')
           /\ snap'.height =
                Cardinality(tlLayers'[bTimeline']) * (EXPANDED_SIZE + SPACING) * 2)
     /\ snapCb(World, 0) = snapEndedCb(World)]_vars

\* Snapping at position 1 was reported at level 1 with two layers, after an
\* indicator had been shown elsewhere.
C18_Witness ==
  /\ lastSnap = 1
  /\ snap = [visible |-> TRUE, x |-> 2, height |-> 300]

\* The seconds since the current render last entered PLAYING.
Elapsed == now - enteredPlaying

(* C19: a position notification handled while a progress dialog exists      *)
(* reports the fraction min(position, duration) / duration, which lies in   *)
(* [0, 1]; it reports an ETA only when more than 5 seconds have passed      *)
(* since the render last entered PLAYING and the position is not zero, and  *)
(* the ETA is elapsed * duration / position - elapsed.                      *)
C19_ProgressFractionAndEta ==
  rdOp = "position" /\ progress # "None" =>
    /\ renderRaised = "none"
    /\ length > 0
    /\ progressbar.fraction = <<Min(notified, length), length>>
    /\ 0 <= progressbar.fraction[1]
    /\ progressbar.fraction[1] <= progressbar.fraction[2]
    /\ IF enteredPlaying >= 0 /\ Elapsed > ETA_DELAY /\ notified # 0
         THEN progressbar.text \in
                {<<"Estimating...">>,
                 <<"About left",
                   beautify_ETA(Trunc((Elapsed * length - Elapsed * notified)
                                        * GstSECOND, notified))>>}
         ELSE progressbar.text = <<"Estimating...">>

\* What a handled cancel leaves behind.
Cancelled ==
  /\ pipeState = "NULL"
  /\ pipeMode = "FULL_PREVIEW"
  /\ \A s \in SignalSources : handlers[s] = 0
  /\ gstSigId = {}
  /\ progress = "None"
  /\ windowShown
  /\ renderRaised = "none"

(* C20: handling the progress dialog's cancel, with the render playing or   *)
(* paused, leaves the pipeline in state NULL and in full-preview mode, none *)
(* of the dialog's bus, encodebin or position handlers connected, the       *)
(* progress reference cleared and the render dialog shown; and until the    *)
(* next render is started the dialog handles no position notification and   *)
(* no bus message.                                                          *)
C20_CancelTearsDown ==
  [][/\ rdOp' = "cancel" => Cancelled'
     /\ (progress = "None" /\ rdOp' # "render")
          => /\ rdOp' \notin {"position", "bus"}
             /\ progressbar' = progressbar
             /\ timestarted' = timestarted]_vars

\* A render that had entered PLAYING and reported progress was cancelled.
C20_Witness ==
  /\ rdOp = "cancel"
  /\ Cancelled
  /\ progressWindow = "destroyed"
  /\ enteredPlaying >= 0
  /\ timestarted = enteredPlaying
  /\ busQueue = <<>>
  /\ progressbar.fraction # <<>>

\* The names of a list of presets are pairwise distinct.
DistinctNames(ps) == Cardinality(getPresetNames(ps)) = Len(ps)

(* C21: the names of the render presets are pairwise distinct; an add       *)
(* click adds a preset under a name that was not in use, without an         *)
(* exception; a rename to a name another preset has changes no name, ends   *)
(* without an exception and shows the inline error.                         *)
C21_PresetNamesDistinct ==
  /\ DistinctNames(presets)
  /\ presetRaised = "none"
  /\ presetOp.name = "add" =>
       /\ presetOp.text \notin getPresetNames(presetOp.before)
       /\ presets = Append(presetOp.before, presetOp.text)
  /\ (/\ presetOp.name = "rename"
      /\ \E i \in 1..Len(presetOp.before) :
           i # presetOp.path /\ presetOp.before[i] = presetOp.text)
       => /\ presets = presetOp.before
          /\ presetError

\* With "New preset" and "New preset 1" in use, the third add click made
\* "New preset 2"; and a rename to a used name was refused.
C21_Witness ==
  /\ presetOp.name = "rename"
  /\ presetError
  /\ presets = <<NewPresetName(0), NewPresetName(1), NewPresetName(2)>>

(* C22: every displayed element's y is its layer's priority times           *)
(* (EXPANDED_SIZE + SPACING) plus SPACING, plus the timeline's current      *)
(* number of layers times (EXPANDED_SIZE + SPACING) for an element of an    *)
(* audio track.                                                             *)
C22_ElementRows ==
  bTimeline # NoTimeline =>
    \A i \in 1..Len(elements) :
      elements[i].y =
        prio[elemLayer[elements[i].b]] * (EXPANDED_SIZE + SPACING) + SPACING
        + (IF ElemType(elements[i].b) = "AUDIO"
             THEN Cardinality(tlLayers[bTimeline]) * (EXPANDED_SIZE + SPACING)
             ELSE 0)

(* C30: no handler of the stage ends with the TypeError of a                *)
(* disconnect_by_func for a callback that is not connected to the object.   *)
C30_DisconnectsOnlyConnected == raised # "TypeError"

\* The layers of the timeline other than the moved one.
OtherLayers == BoundLayers \ {movedLayer}

(* C23: when moveLayer(control, target) has returned, the moved layer is at *)
(* priority target; every layer that lay between the old and the new        *)
(* position is one priority nearer to the vacated position; every other     *)
(* layer is at the priority it had; the other layers are in the order they  *)
(* were in; and with target the moved layer's priority, no priority         *)
(* differs from before the call.                                            *)
C23_MoveLayerShiftsBetween ==
  pc = "returned" =>
    /\ prio[movedLayer] = target
    /\ \A l \in OtherLayers :
         prio[l] =
           IF priority > target /\ target <= prioAtCall[l]
                /\ prioAtCall[l] < priority
             THEN prioAtCall[l] + 1
           ELSE IF priority < target /\ priority < prioAtCall[l]
                     /\ prioAtCall[l] <= target
             THEN prioAtCall[l] - 1
           ELSE prioAtCall[l]
    /\ \A l1, l2 \in OtherLayers :
         prioAtCall[l1] < prioAtCall[l2] <=> prio[l1] < prio[l2]
    /\ priority = target =>
         \A l \in BoundLayers : prio[l] = prioAtCall[l]

\* The first of three layers was moved to the last place: the two others
\* moved up by one.
C23_Witness ==
  /\ pc = "returned"
  /\ Cardinality(BoundLayers) = 3
  /\ priority = 0
  /\ target = 2
  /\ \A l \in OtherLayers : prio[l] = prioAtCall[l] - 1

(* C26: the element of the selected audio encoder gets every key of the     *)
(* audio codec settings set to the value the audio codec settings hold for  *)
(* it, the element of the selected video encoder every key of the video     *)
(* codec settings set to its value there, and an element of another factory *)
(* gets no property set; the handler ends without an exception.             *)
C26_EncoderPropertiesSet ==
  addedFactory # "none" =>
    /\ addedRaised = "none"
    /\ addedProps =
         IF addedFactory = SelectedAudioEncoder THEN acodecsettings
         ELSE IF addedFactory = SelectedVideoEncoder THEN vcodecsettings
         ELSE <<>>

RowToShow(rows, preferred) ==
  IF \E i \in 1..Len(rows) : rows[i] = preferred THEN preferred ELSE rows[1]

(* C25: after a muxer change the selected video encoder is the preferred    *)
(* one when it is among the usable video encoders compatible with the new   *)
(* muxer, and the first of these otherwise; likewise the audio encoder.     *)
C25_PreferredEncoderReselected ==
  comboOp.name = "muxer" /\ comboRaised = "none" =>
    /\ vmodel = factorylist(getVideoEncoders(settingsMuxer))
    /\ amodel = factorylist(getAudioEncoders(settingsMuxer))
    /\ vactive = RowToShow(vmodel, preferred_vencoder)
    /\ aactive = RowToShow(amodel, preferred_aencoder)
    /\ settingsVencoder = vactive
    /\ settingsAencoder = aactive

\* Back on a container the preferred video encoder fits, from one it does
\* not fit, the preferred encoder is selected again; it is not the first
\* of the list.
C25_Witness ==
  /\ comboOp.name = "muxer"
  /\ comboRaised = "none"
  /\ comboOp.vbefore # preferred_vencoder
  /\ vactive = preferred_vencoder
  /\ vmodel[1] # vactive

(* C27: the file name entry is the base name the dialog was opened with     *)
(* followed by the extension of the current muxer when extension_for_muxer  *)
(* has one for it, and that base name alone when it has none.               *)
C27_FileNameFollowsMuxer ==
  fileentry =
    IF extension_for_muxer(settingsMuxer) # "None"
      THEN Append(userBase, extension_for_muxer(settingsMuxer))
      ELSE userBase

\* how many times clip.split() was called on clip c by the last split()
SplitCallsOn(c) == Cardinality({i \in 1..Len(splitCalls) : splitCalls[i] = c})

\* the clip has a track element the position falls strictly inside
Straddles(c, position) ==
  /\ c.tracks # {}
  /\ c.start < position
  /\ position < c.start + c.duration

(* C28: split() calls clip.split() once on every clip that has a track      *)
(* element the position falls strictly inside, and on no other clip,        *)
(* whatever the selection and however many tracks hold elements of the      *)
(* clip; the timeline's updates are enabled when it returns.                *)
C28_SplitOncePerClip ==
  splitOp.name = "split" =>
    /\ \A c \in 1..Len(splitOp.before) :
         SplitCallsOn(c) =
           IF Straddles(splitOp.before[c], splitOp.position) THEN 1 ELSE 0
    /\ \A i \in 1..Len(splitCalls) : splitCalls[i] \in 1..Len(splitOp.before)
    /\ updateEnabled

\* A clip with elements in both tracks was split once, while it was selected,
\* and another clip that only begins or ends at the position was left alone.
C28_Witness ==
  /\ splitOp.name = "split"
  /\ \E c \in selected :
       /\ splitOp.before[c].tracks = TrackTypes
       /\ SplitCallsOn(c) = 1
  /\ \E c \in 1..Len(splitOp.before) :
       /\ \/ splitOp.before[c].start = splitOp.position
          \/ splitOp.before[c].start + splitOp.before[c].duration = splitOp.position
       /\ SplitCallsOn(c) = 0

\* a render is in progress: started, and neither finished nor cancelled
RenderInProgress == pipeMode = "SMART_RENDER"

(* C29: whenever no render is in progress (none was started, or the last    *)
(* one completed with end-of-stream or was cancelled) the dialog holds no   *)
(* sleep inhibition.                                                        *)
C29_NoInhibitionWithoutRender == ~RenderInProgress => ~inhibited
=============================================================================
